---- MODULE Spec2Model ----
(***************************************************************************)
(* Model of the dj_palette component template engine.                      *)
(*                                                                         *)
(* Two renderers of the repository are modelled as step machines over a    *)
(* call stack of frames:                                                   *)
(*   - "palette"    : templatetags/palette.py    (override-map renderer)   *)
(*   - "palette_v2" : templatetags/palette_v2.py (block-stack renderer,    *)
(*                    palette_extends chain, cached template index)        *)
(* A page is a sequence of top-level nodes rendered against one Context    *)
(* (a stack of variable layers plus a render_context).                     *)
(***************************************************************************)
EXTENDS Integers, Sequences, FiniteSets, TLC

VARIABLES
    th,      \* per render thread: stack of frames, contexts, return slot, page log
    cache    \* lru_cache of _index_template_components (palette_v2), shared

vars == <<th, cache>>

(***************************************************************************)
(* Bounds                                                                  *)
(***************************************************************************)
MaxTop == 2          \* top-level nodes rendered by one page
MaxLookupTop == 3    \* top-level nodes of a page of definitions and lookups
MaxRefTop == 2       \* top-level nodes of a page of references and properties

(***************************************************************************)
(* Values bound to template variables                                      *)
(***************************************************************************)
Str(a)      == [t |-> "str", s |-> <<a>>, i |-> 0]
Rendered(o) == [t |-> "str", s |-> o, i |-> 0]
EmptyStr    == [t |-> "str", s |-> <<>>, i |-> 0]
NoneV       == [t |-> "none", s |-> <<>>, i |-> 0]
Unbound     == [t |-> "unbound", s |-> <<>>, i |-> 0]
Faulty      == [t |-> "faulty", s |-> <<>>, i |-> 0]
RegistryObj == [t |-> "registry", s |-> <<>>, i |-> 0]
\* class _Block of palette.py: block.super is the rendered original
BlockObj(original) == [t |-> "block", s |-> original, i |-> 0]
\* class _BlockSuper of palette_v2.py: (stack, index)
BlockSuper(stack, index) == [t |-> "bsuper", s |-> stack, i |-> index]
\* the dict {'super': rendered} that palette_tags.py binds to palette_ui
UISuper(rendered) == [t |-> "dict", s |-> rendered, i |-> 0]

NONE == "<none>"      \* Python None where a name is expected
ABSENT == "<absent>"  \* a render_context key that was never set

VarNames == {"title", "tplvar", "compvar", "flag", "block",
             "PALETTE_COMPONENTS", "component_name", "children", "palette_ui"}

EmptyLayer == [v \in VarNames |-> Unbound]

(***************************************************************************)
(* Diagnostics written into the output                                     *)
(***************************************************************************)
ERR_REF      == "<!-- palette_ui: file/component unresolved -->"
ERR_TEMPLATE == "<!-- palette_ui: template not found -->"
ERR_NOTFOUND == "<!-- palette_ui: component not found -->"
ERR_RENDER   == "<!-- palette_ui render error -->"
Diagnostics  == {ERR_REF, ERR_TEMPLATE, ERR_NOTFOUND, ERR_RENDER}

(***************************************************************************)
(* Template identities and the loading capability (django.template.loader) *)
(***************************************************************************)
TCARD == "ui/card.html"        \* the component library
TABS  == "/abs/ui/card.html"   \* origin.name of TCARD as the loader reports it
TALT  == "alt/card.html"       \* another directory, same filename
TOTH  == "other/card.html"     \* loads, defines no component, same filename
TNONE == "ui/none.html"        \* loads, defines no component
TMISS == "ui/missing.html"     \* does not load
\* palette_v2 extends chains
TA    == "x/a.html"
TB    == "x/b.html"
TC    == "x/c.html"
TCYC1 == "x/cyc1.html"
TCYC2 == "x/cyc2.html"
TSELF == "x/self.html"
TBR   == "x/branch.html"
TORPH == "x/orphan.html"       \* extends a template that does not load
TS1   == "x/s1.html"           \* extends TS2; every body asks for the previous content
TS2   == "x/s2.html"
TFOR  == "x/for.html"          \* defines its component in the {% empty %} clause of a loop
TBTN  == "ui/button.html"      \* a template without components: <button>{{ title }}

Idents == {TCARD, TABS, TALT, TOTH, TNONE, TMISS, TA, TB, TC, TCYC1, TCYC2, TSELF, TBR,
           TORPH, TS1, TS2, TFOR, TBTN}

\* a directory of numbered templates, each of which loads and defines no component
GeneratedNames ==
    << "gen/001.html", "gen/002.html", "gen/003.html", "gen/004.html", "gen/005.html", "gen/006.html",
       "gen/007.html", "gen/008.html", "gen/009.html", "gen/010.html", "gen/011.html", "gen/012.html",
       "gen/013.html", "gen/014.html", "gen/015.html", "gen/016.html", "gen/017.html", "gen/018.html",
       "gen/019.html", "gen/020.html", "gen/021.html", "gen/022.html", "gen/023.html", "gen/024.html",
       "gen/025.html", "gen/026.html", "gen/027.html", "gen/028.html", "gen/029.html", "gen/030.html",
       "gen/031.html", "gen/032.html", "gen/033.html", "gen/034.html", "gen/035.html", "gen/036.html",
       "gen/037.html", "gen/038.html", "gen/039.html", "gen/040.html", "gen/041.html", "gen/042.html",
       "gen/043.html", "gen/044.html", "gen/045.html", "gen/046.html", "gen/047.html", "gen/048.html",
       "gen/049.html", "gen/050.html", "gen/051.html", "gen/052.html", "gen/053.html", "gen/054.html",
       "gen/055.html", "gen/056.html", "gen/057.html", "gen/058.html", "gen/059.html", "gen/060.html",
       "gen/061.html", "gen/062.html", "gen/063.html", "gen/064.html", "gen/065.html", "gen/066.html",
       "gen/067.html", "gen/068.html", "gen/069.html", "gen/070.html", "gen/071.html", "gen/072.html",
       "gen/073.html", "gen/074.html", "gen/075.html", "gen/076.html", "gen/077.html", "gen/078.html",
       "gen/079.html", "gen/080.html", "gen/081.html", "gen/082.html", "gen/083.html", "gen/084.html",
       "gen/085.html", "gen/086.html", "gen/087.html", "gen/088.html", "gen/089.html", "gen/090.html",
       "gen/091.html", "gen/092.html", "gen/093.html", "gen/094.html", "gen/095.html", "gen/096.html",
       "gen/097.html", "gen/098.html", "gen/099.html", "gen/100.html", "gen/101.html", "gen/102.html",
       "gen/103.html", "gen/104.html", "gen/105.html", "gen/106.html", "gen/107.html", "gen/108.html",
       "gen/109.html", "gen/110.html", "gen/111.html", "gen/112.html", "gen/113.html", "gen/114.html",
       "gen/115.html", "gen/116.html", "gen/117.html", "gen/118.html", "gen/119.html", "gen/120.html",
       "gen/121.html", "gen/122.html", "gen/123.html", "gen/124.html", "gen/125.html", "gen/126.html",
       "gen/127.html", "gen/128.html", "gen/129.html", "gen/130.html", "gen/131.html", "gen/132.html",
       "gen/133.html", "gen/134.html", "gen/135.html", "gen/136.html", "gen/137.html", "gen/138.html",
       "gen/139.html", "gen/140.html", "gen/141.html", "gen/142.html", "gen/143.html", "gen/144.html",
       "gen/145.html", "gen/146.html", "gen/147.html", "gen/148.html", "gen/149.html", "gen/150.html",
       "gen/151.html", "gen/152.html", "gen/153.html", "gen/154.html", "gen/155.html", "gen/156.html",
       "gen/157.html", "gen/158.html", "gen/159.html", "gen/160.html", "gen/161.html", "gen/162.html",
       "gen/163.html", "gen/164.html", "gen/165.html", "gen/166.html", "gen/167.html", "gen/168.html",
       "gen/169.html", "gen/170.html", "gen/171.html", "gen/172.html", "gen/173.html", "gen/174.html",
       "gen/175.html", "gen/176.html", "gen/177.html", "gen/178.html", "gen/179.html", "gen/180.html",
       "gen/181.html", "gen/182.html", "gen/183.html", "gen/184.html", "gen/185.html", "gen/186.html",
       "gen/187.html", "gen/188.html", "gen/189.html", "gen/190.html", "gen/191.html", "gen/192.html",
       "gen/193.html", "gen/194.html", "gen/195.html", "gen/196.html", "gen/197.html", "gen/198.html",
       "gen/199.html", "gen/200.html", "gen/201.html", "gen/202.html", "gen/203.html", "gen/204.html",
       "gen/205.html", "gen/206.html", "gen/207.html", "gen/208.html", "gen/209.html", "gen/210.html",
       "gen/211.html", "gen/212.html", "gen/213.html", "gen/214.html", "gen/215.html", "gen/216.html",
       "gen/217.html", "gen/218.html", "gen/219.html", "gen/220.html", "gen/221.html", "gen/222.html",
       "gen/223.html", "gen/224.html", "gen/225.html", "gen/226.html", "gen/227.html", "gen/228.html",
       "gen/229.html", "gen/230.html", "gen/231.html", "gen/232.html", "gen/233.html", "gen/234.html",
       "gen/235.html", "gen/236.html", "gen/237.html", "gen/238.html", "gen/239.html", "gen/240.html",
       "gen/241.html", "gen/242.html", "gen/243.html", "gen/244.html", "gen/245.html", "gen/246.html",
       "gen/247.html", "gen/248.html", "gen/249.html", "gen/250.html", "gen/251.html", "gen/252.html",
       "gen/253.html", "gen/254.html", "gen/255.html", "gen/256.html", "gen/257.html", "gen/258.html",
       "gen/259.html", "gen/260.html" >>

Generated == { GeneratedNames[i] : i \in 1..Len(GeneratedNames) }

CompNames  == {"card", "outer", "boom", "empty", "nope", "panel", "wrap", "show", "frag", "host"}
BlockNames == {"header", "body", "x"}

\* os.path.basename
basename(p) ==
    CASE p \in {TCARD, TABS, TALT, TOTH} -> "card.html"
      [] p = TNONE -> "none.html"
      [] p = TMISS -> "missing.html"
      [] p = TA -> "a.html"
      [] p = TB -> "b.html"
      [] p = TC -> "c.html"
      [] p = TCYC1 -> "cyc1.html"
      [] p = TCYC2 -> "cyc2.html"
      [] p = TSELF -> "self.html"
      [] p = TBR -> "branch.html"
      [] p = TORPH -> "orphan.html"
      [] p = TS1 -> "s1.html"
      [] p = TFOR -> "for.html"
      [] p = TBTN -> "button.html"
      [] p = TS2 -> "s2.html"
      [] OTHER -> p

(***************************************************************************)
(* Template nodes.  A NodeList is a sequence of node ids; a body (the      *)
(* nodelist owned by a block, override or component node) is named by the  *)
(* id of the node that owns it, as Python names it by object identity.     *)
(***************************************************************************)
Lit(v) == [lit |-> TRUE, v |-> v]      \* a string literal argument
Ref(v) == [lit |-> FALSE, v |-> v]     \* a compiled FilterExpression on variable v

NodeRec(kind, name, txt, key, comp, fileX, compX, props, nodelist, nodelist_false) ==
    [kind |-> kind, name |-> name, txt |-> txt, key |-> key, comp |-> comp,
     fileX |-> fileX, compX |-> compX, props |-> props,
     nodelist |-> nodelist, nodelist_false |-> nodelist_false, nodelist_empty |-> <<>>]

Text(txt)             == NodeRec("text", "", txt, "", "", Lit(""), Lit(""), <<>>, <<>>, <<>>)
Var(name)             == NodeRec("var", name, "", "", "", Lit(""), Lit(""), <<>>, <<>>, <<>>)
Raise                 == NodeRec("raise", "", "", "", "", Lit(""), Lit(""), <<>>, <<>>, <<>>)
Block(name, nl)       == NodeRec("block", name, "", "", "", Lit(""), Lit(""), <<>>, nl, <<>>)
Override(name, nl)    == NodeRec("override", name, "", "", "", Lit(""), Lit(""), <<>>, nl, <<>>)
Component(key, c, nl) == NodeRec("component", "", "", key, c, Lit(""), Lit(""), <<>>, nl, <<>>)
UI(f, c, props, nl)   == NodeRec("ui", "", "", "", "", f, c, props, nl, <<>>)
If(cond, nlt, nlf)    == NodeRec("if", cond, "", "", "", Lit(""), Lit(""), <<>>, nlt, nlf)
Extends(parent)       == NodeRec("extends", parent, "", "", "", Lit(""), Lit(""), <<>>, <<>>, <<>>)
\* django's ForNode: nodelist_loop (kept in .nodelist) and the {% empty %} clause
For(loop, empty)      ==
    [NodeRec("for", "", "", "", "", Lit(""), Lit(""), <<>>, loop, <<>>)
        EXCEPT !.nodelist_empty = empty]

Prop(name, type, v) == [name |-> name, type |-> type, v |-> v]

NodeOf(id) ==
    \* ---- text, variables, failing node
    CASE id = "t_open"        -> Text("<card>")
      [] id = "t_close"       -> Text("</card>")
      [] id = "t_untitled"    -> Text("Untitled")
      [] id = "t_report"      -> Text("Report")
      [] id = "t_pre"         -> Text("Pre:")
      [] id = "t_inner"       -> Text("Inner:")
      [] id = "t_outer"       -> Text("<outer>")
      [] id = "t_ohdr"        -> Text("OuterHdr")
      [] id = "t_xhdr"        -> Text("XHdr")
      [] id = "t_whdr"        -> Text("WHdr")
      [] id = "t_alt"         -> Text("<altcard>")
      [] id = "t_abs"         -> Text("<abscard>")
      [] id = "t_plain"       -> Text("plain")
      [] id = "v_title"       -> Var("title")
      [] id = "v_flag"        -> Var("flag")
      [] id = "v_tplvar"      -> Var("tplvar")
      [] id = "v_cname"       -> Var("component_name")
      [] id = "v_super"       -> Var("block.super")
      [] id = "x_raise"       -> Raise
      [] id = "b_top"         -> Block("header", <<"t_plain", "v_super">>)
    \* ---- ui/card.html
      [] id = "d_card"        -> Component(TCARD, "card", <<"t_open", "b_hdr", "b_body", "t_close">>)
      [] id = "b_hdr"         -> Block("header", <<"t_untitled">>)
      [] id = "b_body"        -> Block("body", <<"v_title">>)
      [] id = "d_outer"       -> Component(TCARD, "outer", <<"t_outer", "u_in", "b_ohdr">>)
      [] id = "u_in"          -> UI(Lit(TCARD), Lit("card"), <<>>, <<"o_in_hdr">>)
      [] id = "o_in_hdr"      -> Override("header", <<"t_inner", "v_super">>)
      [] id = "b_ohdr"        -> Block("header", <<"t_ohdr">>)
      [] id = "d_boom"        -> Component(TCARD, "boom", <<"b_bhdr", "x_raise">>)
      [] id = "d_wrap"        -> Component(TCARD, "wrap", <<"u_inboom", "b_ohdr">>)
      [] id = "u_inboom"      -> UI(Lit(TCARD), Lit("boom"), <<>>, <<>>)
      [] id = "b_bhdr"        -> Block("header", <<"t_untitled">>)
      [] id = "d_empty"       -> Component(TCARD, "empty", <<>>)
      [] id = "d_show"        -> Component(TCARD, "show",
                                           <<"v_title", "v_flag", "v_tplvar", "v_cname">>)
    \* ---- definitions of "card" in templates of other identities
      [] id = "d_alt"         -> Component(TALT, "card", <<"t_alt">>)
      [] id = "d_abs"         -> Component(TABS, "card", <<"t_abs">>)
    \* ---- x/for.html: {% for %}plain{% empty %}{% palette_component panel %}
      [] id = "forE"          -> For(<<"t_plain">>, <<"dE">>)
      [] id = "dE"            -> Component(TFOR, "panel", <<"tE">>)
      [] id = "tE"            -> Text("E")
      [] id = "uE"            -> UI(Lit(TFOR), Lit("panel"), <<>>, <<>>)
    \* ---- invocations a page makes
      [] id = "u_plain"       -> UI(Lit(TCARD), Lit("card"), <<>>, <<>>)
      [] id = "u_ov"          -> UI(Lit(TCARD), Lit("card"),
                          <<Prop("title", "literal", "Hello")>>, <<"o_report">>)
      [] id = "o_report"      -> Override("header", <<"t_report">>)
      [] id = "u_sup"         -> UI(Lit(TCARD), Lit("card"),
                          <<Prop("title", "expression", "compvar")>>, <<"o_sup">>)
      [] id = "o_sup"         -> Override("header", <<"t_pre", "v_super">>)
      [] id = "u_outer"       -> UI(Lit(TCARD), Lit("outer"), <<>>, <<"o_xhdr">>)
      [] id = "o_xhdr"        -> Override("header", <<"t_xhdr">>)
      [] id = "u_wrap"        -> UI(Lit(TCARD), Lit("wrap"), <<>>, <<"o_whdr">>)
      [] id = "o_whdr"        -> Override("header", <<"t_whdr">>)
      [] id = "u_boom"        -> UI(Lit(TCARD), Lit("boom"), <<>>, <<"o_bhdr">>)
      [] id = "o_bhdr"        -> Override("header", <<"t_report">>)
      [] id = "u_empty"       -> UI(Lit(TCARD), Lit("empty"), <<>>, <<>>)
      [] id = "u_nocomp"      -> UI(Lit(TCARD), Lit("nope"), <<>>, <<>>)
      [] id = "u_notpl"       -> UI(Lit(TMISS), Lit("card"), <<>>, <<>>)
      [] id = "u_none"        -> UI(Lit(TNONE), Lit("card"), <<>>, <<>>)
      [] id = "u_oth"         -> UI(Lit(TOTH), Lit("card"), <<>>, <<>>)
      [] id = "u_var"         -> UI(Ref("tplvar"), Ref("compvar"), <<>>, <<>>)
      [] id = "u_props"       -> UI(Lit(TCARD), Lit("show"),
                          <<Prop("title", "literal", "Hello"),
                            Prop("flag", "expression", "title")>>, <<>>)
      [] id = "u_fault"       -> UI(Lit(TCARD), Lit("show"),
                          <<Prop("title", "expression", "compvar"),
                            Prop("flag", "literal", "on")>>, <<>>)
      [] id = "u_cname"       -> UI(Lit(TCARD), Lit("show"),
                          <<Prop("component_name", "literal", "mine")>>, <<>>)
    \* ---- an invocation whose override body makes an invocation itself
      [] id = "u_ovui"        -> UI(Lit(TCARD), Lit("card"), <<>>, <<"o_ui">>)
      [] id = "o_ui"          -> Override("header", <<"u_within">>)
      [] id = "u_within"      -> UI(Lit(TCARD), Lit("card"), <<>>, <<>>)
    \* ---- an invocation whose override body makes an invocation that declares an
    \*      override of its own
      [] id = "u_nest"        -> UI(Lit(TCARD), Lit("card"), <<>>, <<"o_nest">>)
      [] id = "o_nest"        -> Override("header", <<"u_deep">>)
      [] id = "u_deep"        -> UI(Lit(TCARD), Lit("card"), <<>>, <<"o_deep">>)
      [] id = "o_deep"        -> Override("body", <<"t_report">>)
    \* ---- an invocation with an override that names no block of the component
      [] id = "u_unm"         -> UI(Lit(TCARD), Lit("card"), <<>>, <<"o_unm">>)
      [] id = "o_unm"         -> Override("x", <<"t_report">>)
    \* ---- a component whose block has a default body that raises, invoked with
    \*      an override of that block that does not ask for the previous content
      [] id = "d_frag"        -> Component(TCARD, "frag", <<"b_frag">>)
      [] id = "b_frag"        -> Block("header", <<"x_raise">>)
      [] id = "u_frag"        -> UI(Lit(TCARD), Lit("frag"), <<>>, <<"o_frag">>)
      [] id = "o_frag"        -> Override("header", <<"t_report">>)
    \* ---- a component whose body invokes a component that is not found, invoked
    \*      with an override
      [] id = "d_host"        -> Component(TCARD, "host", <<"u_hmiss", "b_host">>)
      [] id = "u_hmiss"       -> UI(Lit(TCARD), Lit("nope"),
                          <<Prop("title", "literal", "Hello")>>, <<"o_hmiss">>)
      [] id = "o_hmiss"       -> Override("body", <<"t_report">>)
      [] id = "b_host"        -> Block("header", <<"t_untitled">>)
      [] id = "u_host"        -> UI(Lit(TCARD), Lit("host"), <<>>, <<"o_host">>)
      [] id = "o_host"        -> Override("header", <<"t_report">>)
    \* ---- invocations with properties and an override whose template does not
    \*      load, or does not define the component
      [] id = "u_lost"        -> UI(Lit(TMISS), Lit("card"),
                          <<Prop("title", "expression", "title")>>, <<"o_lost">>)
      [] id = "u_gone"        -> UI(Lit(TCARD), Lit("nope"),
                          <<Prop("title", "literal", "Hello")>>, <<"o_lost">>)
      [] id = "o_lost"        -> Override("header", <<"t_report">>)
    \* ---- palette_v2: the chain x/a.html -> x/b.html -> x/c.html, each defining
    \*      component "panel" with a block "x"
      [] id = "e_a"           -> Extends(TB)
      [] id = "dA"            -> Component(TA, "panel", <<"bA_x">>)
      [] id = "bA_x"          -> Block("x", <<"tA">>)
      [] id = "tA"            -> Text("A.x")
      [] id = "e_b"           -> Extends(TC)
      [] id = "dB"            -> Component(TB, "panel", <<"bB_x">>)
      [] id = "bB_x"          -> Block("x", <<"tB">>)
      [] id = "tB"            -> Text("B.x")
      [] id = "dC"            -> Component(TC, "panel", <<"bC_x">>)
      [] id = "bC_x"          -> Block("x", <<"tC">>)
      [] id = "tC"            -> Text("C.x")
    \* ---- palette_v2: extends cycles
      [] id = "e_cyc1"        -> Extends(TCYC2)
      [] id = "dCyc1"         -> Component(TCYC1, "panel", <<"bCyc1_x">>)
      [] id = "bCyc1_x"       -> Block("x", <<"tCyc1">>)
      [] id = "tCyc1"         -> Text("cyc1.x")
      [] id = "e_cyc2"        -> Extends(TCYC1)
      [] id = "dCyc2"         -> Component(TCYC2, "panel", <<"bCyc2_x">>)
      [] id = "bCyc2_x"       -> Block("x", <<"tCyc2">>)
      [] id = "tCyc2"         -> Text("cyc2.x")
      [] id = "e_self"        -> Extends(TSELF)
      [] id = "dSelf"         -> Component(TSELF, "panel", <<"bSelf_x">>)
      [] id = "bSelf_x"       -> Block("x", <<"tSelf">>)
      [] id = "tSelf"         -> Text("self.x")
    \* ---- palette_v2: a block name repeated in the two branches of a conditional
      [] id = "dBr"           -> Component(TBR, "panel", <<"if_flag">>)
      [] id = "if_flag"       -> If("flag", <<"bT_x">>, <<"bF_x">>)
      [] id = "bT_x"          -> Block("x", <<"tTrue">>)
      [] id = "tTrue"         -> Text("x-when-true")
      [] id = "bF_x"          -> Block("x", <<"tFalse">>)
      [] id = "tFalse"        -> Text("x-when-false")
    \* ---- palette_v2: a component whose template extends one that does not load
      [] id = "e_orph"        -> Extends(TMISS)
      [] id = "dOrph"         -> Component(TORPH, "panel", <<"bOrph_x">>)
      [] id = "bOrph_x"       -> Block("x", <<"tOrph">>)
      [] id = "tOrph"         -> Text("orphan.x")
      [] id = "uOrph"         -> UI(Lit(TORPH), Lit("panel"), <<>>, <<>>)
    \* ---- palette_v2: the chain x/s1.html -> x/s2.html, where the bodies of block
    \*      "x" all end with {{ block.super }}
      [] id = "e_s1"          -> Extends(TS2)
      [] id = "dS1"           -> Component(TS1, "panel", <<"bS1_x">>)
      [] id = "bS1_x"         -> Block("x", <<"tS1", "v_super">>)
      [] id = "tS1"           -> Text("S1.x")
      [] id = "dS2"           -> Component(TS2, "panel", <<"bS2_x">>)
      [] id = "bS2_x"         -> Block("x", <<"tS2", "v_super">>)
      [] id = "tS2"           -> Text("S2.x")
      [] id = "uS"            -> UI(Lit(TS1), Lit("panel"), <<>>, <<>>)
      [] id = "uS_ov"         -> UI(Lit(TS1), Lit("panel"), <<>>, <<"o_xsup">>)
      [] id = "o_xsup"        -> Override("x", <<"t_pre", "v_super", "v_super">>)
    \* ---- palette_v2: an invocation that passes a property named block
      [] id = "u_blk"         -> UI(Lit(TCARD), Lit("card"),
                          <<Prop("block", "expression", "compvar")>>, <<>>)
    \* ---- palette_tags: ui/button.html and the invocations of it (the tag takes a
    \*      template, properties and an inline body; it has no component name)
      [] id = "t_btn"         -> Text("<button>")
      [] id = "v_uisuper"     -> Var("palette_ui.super")
      [] id = "p_plain"       -> UI(Ref("tplvar"), Lit(""), <<>>, <<>>)
      [] id = "p_prop"        -> UI(Lit(TBTN), Lit(""),
                          <<Prop("title", "markup", "flag")>>, <<"v_uisuper">>)
      [] id = "p_wrap"        -> UI(Lit(TBTN), Lit(""),
                          <<Prop("title", "expression", "compvar")>>,
                          <<"t_pre", "v_uisuper">>)
      [] id = "p_fail"        -> UI(Lit(TBTN), Lit(""), <<>>, <<"v_uisuper", "x_raise">>)
      [] id = "p_nest"        -> UI(Lit(TBTN), Lit(""), <<>>, <<"p_in">>)
      [] id = "p_in"          -> UI(Lit(TBTN), Lit(""), <<>>, <<"t_inner", "x_raise">>)
      [] id = "p_miss"        -> UI(Lit(TMISS), Lit(""), <<>>, <<"t_pre">>)
    \* ---- trees a template may hold: definitions under conditionals, loops, the
    \*      {% empty %} clause of a loop and the inline body of an invocation
      [] id = "if_defs"       -> If("flag", <<"d_boom">>, <<"d_empty">>)
      [] id = "for_loop"      -> For(<<"if_in">>, <<>>)
      [] id = "if_in"         -> If("flag", <<"d_show">>, <<>>)
      [] id = "for_empty"     -> For(<<"t_plain">>, <<"d_wrap">>)
      [] id = "u_inl"         -> UI(Lit(TCARD), Lit("card"), <<>>, <<"dA">>)
    \* ---- palette_v2: invocations
      [] id = "uA"            -> UI(Lit(TA), Lit("panel"), <<>>, <<>>)
      [] id = "uA_ov"         -> UI(Lit(TA), Lit("panel"), <<>>, <<"o_x">>)
      [] id = "o_x"           -> Override("x", <<"t_pre", "v_super">>)
      [] id = "uB"            -> UI(Lit(TB), Lit("panel"), <<>>, <<>>)
      [] id = "uB_ov"         -> UI(Lit(TB), Lit("panel"), <<>>, <<"o_x2">>)
      [] id = "o_x2"          -> Override("x", <<"t_report">>)
      [] id = "uCyc"          -> UI(Lit(TCYC1), Lit("panel"), <<>>, <<>>)
      [] id = "uSelf"         -> UI(Lit(TSELF), Lit("panel"), <<>>, <<"o_xs">>)
      [] id = "o_xs"          -> Override("x", <<"t_pre", "v_super">>)
      [] id = "uBr"           -> UI(Lit(TBR), Lit("panel"), <<>>, <<>>)
      [] id = "uBr_ov"        -> UI(Lit(TBR), Lit("panel"), <<>>, <<"o_xb">>)
      [] id = "o_xb"          -> Override("x", <<"t_pre", "v_super">>)

NodeIds ==
    {"t_open", "t_close", "t_untitled", "t_report", "t_pre", "t_inner",
     "t_outer", "t_ohdr", "t_xhdr", "t_alt", "t_abs", "t_plain",
     "v_title", "v_super", "x_raise", "b_top", "d_card", "b_hdr", "b_body",
     "d_outer", "u_in", "o_in_hdr", "b_ohdr", "d_boom", "b_bhdr",
     "d_empty", "d_alt", "d_abs", "u_plain", "u_ov", "o_report",
     "u_sup", "o_sup", "u_outer", "o_xhdr", "u_boom", "u_empty",
     "u_nocomp", "u_notpl", "u_none", "u_oth", "u_var", "e_a",
     "dA", "bA_x", "tA", "e_b", "dB", "bB_x",
     "tB", "dC", "bC_x", "tC", "e_cyc1", "dCyc1",
     "bCyc1_x", "tCyc1", "e_cyc2", "dCyc2", "bCyc2_x", "tCyc2",
     "e_self", "dSelf", "bSelf_x", "tSelf", "dBr", "if_flag",
     "bT_x", "tTrue", "bF_x", "tFalse", "uA", "uA_ov",
     "o_x", "uB", "uB_ov", "o_x2", "uCyc", "uSelf",
     "uBr", "uBr_ov", "d_wrap", "u_wrap", "u_inboom", "o_whdr", "o_bhdr",
     "t_whdr", "o_xs", "o_xb", "d_show", "v_flag", "v_tplvar", "v_cname",
     "u_props", "u_fault", "u_cname", "e_orph", "dOrph", "bOrph_x", "tOrph",
     "uOrph", "if_defs", "for_loop", "if_in", "for_empty", "u_inl", "u_ovui", "o_ui", "u_within", "u_nest", "o_nest", "u_deep", "o_deep", "u_unm", "o_unm", "u_blk", "t_btn", "v_uisuper", "p_plain", "p_prop", "p_wrap", "p_fail", "p_nest", "p_in", "p_miss", "d_frag", "b_frag", "u_frag", "o_frag", "d_host", "u_hmiss", "o_hmiss", "b_host", "u_host", "o_host", "u_lost", "u_gone", "o_lost", "e_s1", "dS1", "bS1_x", "tS1", "dS2", "bS2_x", "tS2", "uS", "uS_ov",
     "o_xsup", "forE", "dE", "tE", "uE"}

Nodes == [id \in NodeIds |-> NodeOf(id)]

\* loader.get_template(name): does it load, what is its root nodelist, and what
\* name does the loaded template object report for itself
Loads(name) == name \in (Idents \ {TMISS, TABS}) \cup Generated

RootNodelist(name) ==
    CASE name = TCARD -> <<"d_card", "d_outer", "d_boom", "d_empty", "d_wrap", "d_show",
                       "d_frag", "d_host">>
      [] name = TALT  -> <<"d_alt">>
      [] name = TA    -> <<"e_a", "dA">>
      [] name = TB    -> <<"e_b", "dB">>
      [] name = TC    -> <<"dC">>
      [] name = TCYC1 -> <<"e_cyc1", "dCyc1">>
      [] name = TCYC2 -> <<"e_cyc2", "dCyc2">>
      [] name = TSELF -> <<"e_self", "dSelf">>
      [] name = TBR   -> <<"dBr">>
      [] name = TORPH -> <<"e_orph", "dOrph">>
      [] name = TS1   -> <<"e_s1", "dS1">>
      [] name = TS2   -> <<"dS2">>
      [] name = TFOR  -> <<"forE">>
      [] name = TBTN  -> <<"t_btn", "v_title">>
      [] OTHER        -> <<"t_plain">>

TemplateObjName(name) == IF name = TCARD THEN TABS ELSE name

(***************************************************************************)
(* django.template.Context: a stack of layers (dicts) and a render_context *)
(***************************************************************************)
\* the render_context keys the two renderers use
NoOverrides == [b \in BlockNames |-> NONE]
NoRegistry  == [st |-> "absent", keys |-> <<>>,
                m |-> [k \in Idents |-> [c \in CompNames |-> NONE]]]
NoBlockCtx  == [b \in BlockNames |-> <<>>]

FreshRenderContext ==
    [PALETTE_COMPONENTS        |-> NoRegistry,
     palette_overrides         |-> [st |-> ABSENT, m |-> NoOverrides],
     palette_current_component |-> ABSENT,
     palette_registry          |-> NoRegistry,
     palette_block_context     |-> [st |-> ABSENT, blocks |-> NoBlockCtx]]

NewContext(layer) == [dicts |-> <<layer>>, rc |-> FreshRenderContext]

\* context.get(key, None) / variable lookup: the topmost layer binding the name
RECURSIVE LookupFrom(_, _, _)
LookupFrom(dicts, i, name) ==
    IF i = 0 THEN Unbound
    ELSE IF dicts[i][name] # Unbound THEN dicts[i][name]
    ELSE LookupFrom(dicts, i - 1, name)

Lookup(ctx, name) == LookupFrom(ctx.dicts, Len(ctx.dicts), name)

\* context[name] = value: binds in the top layer
SetVar(ctx, name, value) ==
    [ctx EXCEPT !.dicts[Len(ctx.dicts)][name] = value]

\* del context[name]: removes the binding of the top layer, if it has one
DelVar(ctx, name) ==
    [ctx EXCEPT !.dicts[Len(ctx.dicts)][name] = Unbound]

Push(ctx) == [ctx EXCEPT !.dicts = Append(@, EmptyLayer)]
Pop(ctx)  == [ctx EXCEPT !.dicts = SubSeq(@, 1, Len(@) - 1)]

\* context.flatten(): one dict, upper layers shadowing lower ones
Flatten(ctx) == [v \in VarNames |-> Lookup(ctx, v)]

\* FilterExpression.resolve for a plain variable: the bound value, '' when the
\* variable does not exist; "raises" says the evaluation throws
Resolves(ctx, name) == Lookup(ctx, name).t # "faulty"
Resolve(ctx, name) ==
    LET v == Lookup(ctx, name) IN IF v = Unbound THEN EmptyStr ELSE v

\* truthiness of a resolved value ("not tpl_name")
Truthy(v) == v.t \notin {"none", "unbound"} /\ ~(v.t = "str" /\ v.s = <<>>)

(***************************************************************************)
(* The registry  {template key -> {component name -> nodelist}}            *)
(***************************************************************************)
\* registry.get(key, {}).get(comp)
RegGet(reg, key, comp) == IF key \in Idents THEN reg.m[key][comp] ELSE NONE

\* registry.setdefault(key, {})[comp] = node
RegPut(reg, key, comp, node) ==
    [st   |-> "dict",
     keys |-> IF \E j \in 1..Len(reg.keys) : reg.keys[j] = key
              THEN reg.keys ELSE Append(reg.keys, key),
     m    |-> [reg.m EXCEPT ![key][comp] = node]]

\* render_context.setdefault("PALETTE_COMPONENTS", {})
RegEnsure(reg) == [reg EXCEPT !.st = "dict"]

(***************************************************************************)
(* AST walking                                                             *)
(***************************************************************************)
\* the child NodeLists _iter_nodelist_recursive finds on a node: attributes
\* nodelist, nodelist_true, nodelist_false, nodelist_loop.  The invocation node of
\* palette.py keeps its inline body in .nodelist; that of palette_v2.py keeps it
\* in .inner_nodelist, which the walker does not look at.
ChildNodes(engine, id) ==
    LET n == Nodes[id] IN
    IF n.kind = "ui" /\ engine = "palette_v2" THEN <<>>
    ELSE n.nodelist \o n.nodelist_false

RECURSIVE iter_nodelist_recursive(_, _)
iter_nodelist_recursive(engine, nodelist) ==
    IF nodelist = <<>> THEN <<>>
    ELSE <<Head(nodelist)>>
         \o iter_nodelist_recursive(engine, ChildNodes(engine, Head(nodelist)))
         \o iter_nodelist_recursive(engine, Tail(nodelist))

(***************************************************************************)
(* palette.py: PaletteUINode._find_component_in_registry                   *)
(***************************************************************************)
\* each strategy yields the nodelist owner it finds, or NONE
Strategy1(reg, tpl_name, comp_name) == RegGet(reg, tpl_name, comp_name)

Strategy2(reg, tpl_name, comp_name) ==
    IF Loads(tpl_name) THEN RegGet(reg, TemplateObjName(tpl_name), comp_name) ELSE NONE

Strategy3(reg, tpl_name, comp_name) ==
    IF \E j \in 1..Len(reg.keys) :
          basename(reg.keys[j]) = basename(tpl_name)
          /\ RegGet(reg, reg.keys[j], comp_name) # NONE
    THEN RegGet(reg, reg.keys[CHOOSE j \in 1..Len(reg.keys) :
            /\ basename(reg.keys[j]) = basename(tpl_name)
            /\ RegGet(reg, reg.keys[j], comp_name) # NONE
            /\ \A k \in 1..(j - 1) :
                  ~(basename(reg.keys[k]) = basename(tpl_name)
                    /\ RegGet(reg, reg.keys[k], comp_name) # NONE)], comp_name)
    ELSE NONE

\* the first PaletteComponentNode of that name the recursive walk yields
FirstDef(all, comp_name) ==
    IF \E j \in 1..Len(all) :
          Nodes[all[j]].kind = "component" /\ Nodes[all[j]].comp = comp_name
    THEN all[CHOOSE j \in 1..Len(all) :
            /\ Nodes[all[j]].kind = "component" /\ Nodes[all[j]].comp = comp_name
            /\ \A k \in 1..(j - 1) :
                  ~(Nodes[all[k]].kind = "component" /\ Nodes[all[k]].comp = comp_name)]
    ELSE NONE

Strategy4(tpl_name, comp_name) ==
    IF ~Loads(tpl_name) THEN NONE
    ELSE FirstDef(iter_nodelist_recursive("palette", RootNodelist(tpl_name)), comp_name)

\* a faulty lookup, for comparison: the same-filename match is tried before the
\* exact and the canonical identity
FirstFound_BasenameFirst(reg, tpl_name, comp_name, s1, s2, s3, s4) ==
    IF s3 # NONE THEN [node |-> s3, reg |-> reg, by |-> 3]
    ELSE IF s1 # NONE THEN [node |-> s1, reg |-> reg, by |-> 1]
    ELSE IF s2 # NONE THEN [node |-> s2, reg |-> reg, by |-> 2]
    ELSE IF s4 # NONE
         THEN [node |-> s4, reg |-> RegPut(reg, tpl_name, comp_name, s4), by |-> 4]
    ELSE [node |-> NONE, reg |-> reg, by |-> 0]

\* the first strategy that finds something decides; strategy 4 registers its find
FirstFound(reg, tpl_name, comp_name, s1, s2, s3, s4) ==
    IF s1 # NONE THEN [node |-> s1, reg |-> reg, by |-> 1]
    ELSE IF s2 # NONE THEN [node |-> s2, reg |-> reg, by |-> 2]
    ELSE IF s3 # NONE THEN [node |-> s3, reg |-> reg, by |-> 3]
    ELSE IF s4 # NONE
         THEN [node |-> s4, reg |-> RegPut(reg, tpl_name, comp_name, s4), by |-> 4]
    ELSE [node |-> NONE, reg |-> reg, by |-> 0]

\* [node, reg, by]: the nodelist found (NONE if none), the registry afterwards and
\* the strategy that found it
find_component_in_registry(reg, tpl_name, comp_name) ==
    FirstFound(reg, tpl_name, comp_name,
               Strategy1(reg, tpl_name, comp_name),
               Strategy2(reg, tpl_name, comp_name),
               Strategy3(reg, tpl_name, comp_name),
               Strategy4(tpl_name, comp_name))

(***************************************************************************)
(* Render threads: a call stack of frames over a store of Contexts         *)
(***************************************************************************)
\* the renders in progress; a page is rendered by one thread
Threads == DOMAIN th
Solo    == {1}

NoRet == [st |-> "none", out |-> <<>>]

\* the record of the last completed invocation (observed at its exit)
NoEvent ==
    [k |-> "none", n |-> "", entry |-> NewContext(EmptyLayer),
     exit |-> NewContext(EmptyLayer), outcome |-> "", raised |-> FALSE,
     out |-> <<>>, by |-> 0, tpl |-> "", comp |-> "", body |-> NONE, pushed |-> FALSE,
     looked |-> NoRegistry, visited |-> <<>>, current |-> NONE,
     lv |-> EmptyLayer, ov |-> NoOverrides, seen |-> {}]

Frame(k, n, c) ==
    [k |-> k, n |-> n, c |-> c, pc |-> "start",
     nl |-> <<>>, i |-> 1, acc |-> <<>>,
     tpl |-> "", comp |-> "", body |-> NONE, by |-> 0,
     lv |-> EmptyLayer, ov |-> NoOverrides,
     prevOv |-> [st |-> ABSENT, m |-> NoOverrides], prevCur |-> ABSENT,
     prevPbc |-> [st |-> ABSENT, blocks |-> NoBlockCtx],
     prevBlock |-> Unbound, stack |-> <<>>, idx |-> 0,
     merged |-> NoBlockCtx, walked |-> NoBlockCtx, visited |-> <<>>, current |-> NONE,
     entry |-> NewContext(EmptyLayer), looked |-> NoRegistry, pushed |-> FALSE,
     seen |-> {}]

NodelistFrame(nl, c) == [Frame("nodelist", "", c) EXCEPT !.nl = nl]

Top(s)           == s.stack[Len(s.stack)]
SetTop(s, f)     == [s EXCEPT !.stack[Len(s.stack)] = f]
PushF(s, f)      == [s EXCEPT !.stack = Append(@, f)]
PopF(s)          == [s EXCEPT !.stack = SubSeq(@, 1, Len(@) - 1)]
Ctx(s)           == s.ctxs[Top(s).c]
SetCtx(s, ctx)   == [s EXCEPT !.ctxs[Top(s).c] = ctx]
Return(s, out)   == [PopF(s) EXCEPT !.ret = [st |-> "val", out |-> out]]
Throw(s)         == [PopF(s) EXCEPT !.ret = [st |-> "exc", out |-> <<>>]]
Running(s)       == s.stack # <<>>
Waiting(s)       == Running(s) /\ s.ret.st = "none"
Returned(s)      == Running(s) /\ s.ret.st # "none"
At(s, k, pc)     == Top(s).k = k /\ Top(s).pc = pc

\* the exit of an invocation, as its caller observes it: s is the thread about to
\* leave the invocation's frame, after the state the thread has once it has left
Exit(s, after, outcome) ==
    LET f == Top(s) IN
    [after EXCEPT !.last =
        [k |-> "ui_exit", n |-> f.n, entry |-> f.entry, exit |-> after.ctxs[f.c],
         outcome |-> outcome, raised |-> (after.ret.st = "exc"), out |-> after.ret.out,
         by |-> f.by, tpl |-> f.tpl, comp |-> f.comp, body |-> f.body,
         pushed |-> f.pushed, looked |-> f.looked, visited |-> f.visited,
         current |-> f.current, lv |-> f.lv, ov |-> f.ov, seen |-> f.seen]]

\* the frame of the invocation whose component body is being rendered: the
\* innermost invocation frame of the call stack, 0 if there is none
RECURSIVE EnclosingUI(_, _)
EnclosingUI(stack, j) ==
    IF j = 0 THEN 0
    ELSE IF stack[j].k = "ui" THEN j
    ELSE EnclosingUI(stack, j - 1)

\* the exit of a block: the node whose nodelist was rendered as the block's content
\* (the block itself, an override, or the top of its stack), what came out, and the
\* invocation it was rendered for with the overrides that invocation declared
BlockEvent(s, after, top, j) ==
    [after EXCEPT !.lastb =
        [k |-> "block_exit", n |-> Top(s).n, top |-> top, stack |-> Top(s).stack,
         st |-> after.ret.st, out |-> after.ret.out,
         inv |-> IF j = 0 THEN NONE ELSE s.stack[j].n,
         ov |-> IF j = 0 THEN NoOverrides ELSE s.stack[j].ov]]

BlockExit(s, after, top) == BlockEvent(s, after, top, EnclosingUI(s.stack, Len(s.stack)))

NoBlockEvent ==
    [k |-> "none", n |-> "", top |-> "", stack |-> <<>>, st |-> "", out |-> <<>>,
     inv |-> NONE,
     ov |-> NoOverrides]

(***************************************************************************)
(* NodeList.render: render each node in turn and concatenate               *)
(***************************************************************************)
CurNode(s) == Nodes[Top(s).nl[Top(s).i]]
HasNode(s) == Top(s).k = "nodelist" /\ Top(s).i <= Len(Top(s).nl)
Emit(s, out) == SetTop(s, [Top(s) EXCEPT !.acc = @ \o out, !.i = @ + 1])

\* what {{ name }} writes for a bound value
ValueText(v) ==
    CASE v.t = "str"      -> v.s
      [] v.t = "block"    -> <<"<_Block>">>
      [] v.t = "bsuper"   -> <<"<_BlockSuper>">>
      [] v.t = "registry" -> <<"<registry>">>
      [] v.t = "none"     -> <<"None">>
      [] OTHER            -> <<>>

\* TextNode.render; PaletteOverrideNode.render and PaletteExtendsNode.render return ""
RenderText(s) ==
    Emit(s, IF CurNode(s).kind = "text" THEN <<CurNode(s).txt>> ELSE <<>>)

\* VariableNode.render of a plain variable
RenderVar(s) ==
    IF Resolves(Ctx(s), CurNode(s).name)
    THEN Emit(s, ValueText(Lookup(Ctx(s), CurNode(s).name)))
    ELSE Throw(s)

\* VariableNode.render of {{ block.super }} against palette.py's _Block
RenderBlockSuperString(s) ==
    LET b == Lookup(Ctx(s), "block")
    IN Emit(s, IF b.t = "block" THEN b.s ELSE <<>>)

\* a node of the nodelist that is itself a tag with a body
CallNode(s) ==
    PushF(s, Frame(CurNode(s).kind, Top(s).nl[Top(s).i], Top(s).c))

\* the child returned: append its output, or let its exception pass
NodelistResume(s) ==
    IF s.ret.st = "val"
    THEN [Emit(s, s.ret.out) EXCEPT !.ret = NoRet]
    ELSE PopF(s)

NodelistDone(s) == Return(s, Top(s).acc)

(***************************************************************************)
(* palette.py: PaletteUINode.render, stage by stage                        *)
(***************************************************************************)
\* the string a resolved file= / component= value names
NameOf(v) == IF v.t = "str" /\ Len(v.s) = 1 THEN v.s[1] ELSE "<object>"

\* _resolve_token: the resolved value, None if resolution fails
resolve_token(x, ctx) ==
    IF x.lit THEN (IF x.v = "" THEN EmptyStr ELSE Str(x.v))
    ELSE IF Resolves(ctx, x.v) THEN Resolve(ctx, x.v) ELSE NoneV

\* a faulty placeholder return, for comparison: the scope for the properties is
\* pushed before the checks and left in place
Placeholder_Pushed(s, diag) ==
    Exit(s, Return(SetCtx(s, Push(Ctx(s))), <<diag>>), "placeholder")

\* a placeholder return: the frame is left, nothing else is touched
Placeholder(s, diag) == Exit(s, Return(s, <<diag>>), "placeholder")

\* a faulty first stage, for comparison: the resolved references are used without
\* being checked
UIResolveReferences_Unchecked(s) ==
    LET n    == Nodes[Top(s).n]
        tplV == resolve_token(n.fileX, Ctx(s))
        cmpV == resolve_token(n.compX, Ctx(s))
        f    == [Top(s) EXCEPT !.entry = Ctx(s)]
    IN SetTop(s, [f EXCEPT !.pc = "load", !.tpl = NameOf(tplV), !.comp = NameOf(cmpV)])

\* a faulty first stage, for comparison: a deferred component reference is taken
\* to name the component by the variable's own name
UIResolveReferences_OwnName(s) ==
    LET n    == Nodes[Top(s).n]
        tplV == resolve_token(n.fileX, Ctx(s))
        f    == [Top(s) EXCEPT !.entry = Ctx(s)]
        s1   == SetTop(s, f)
    IN IF ~Truthy(tplV) \/ ~Truthy(resolve_token(n.compX, Ctx(s)))
       THEN Placeholder(s1, ERR_REF)
       ELSE SetTop(s1, [f EXCEPT !.pc = "load", !.tpl = NameOf(tplV),
                                 !.comp = n.compX.v])

\* lines 436-457: resolve the file and component references
UIResolveReferences(s) ==
    LET n    == Nodes[Top(s).n]
        tplV == resolve_token(n.fileX, Ctx(s))
        cmpV == resolve_token(n.compX, Ctx(s))
        f    == [Top(s) EXCEPT !.entry = Ctx(s)]
        s1   == SetTop(s, f)
    IN IF ~Truthy(tplV) \/ ~Truthy(cmpV)
       THEN Placeholder(s1, ERR_REF)
       ELSE SetTop(s1, [f EXCEPT !.pc = "load", !.tpl = NameOf(tplV),
                                 !.comp = NameOf(cmpV)])

\* lines 459-467: the registry of this render, then the template must load
UILoadTemplate(s) ==
    LET s1 == SetCtx(s, [Ctx(s) EXCEPT
                  !.rc.PALETTE_COMPONENTS = RegEnsure(@)])
    IN IF ~Loads(Top(s).tpl)
       THEN Placeholder(s1, ERR_TEMPLATE)
       ELSE SetTop(s1, [Top(s1) EXCEPT !.pc = "lookup"])

\* lines 481-501: one property; a failing resolution binds None
ResolveProp(p, ctx) ==
    CASE p.type = "literal"    -> Str(p.v)
      [] p.type = "expression" -> IF Resolves(ctx, p.v) THEN Resolve(ctx, p.v) ELSE NoneV
      [] p.type = "tag"        -> Str(p.v)
      [] OTHER                 -> NoneV

\* a faulty loop, for comparison: the try statement encloses the whole loop, so the
\* first failing property ends the resolution of the remaining ones
RECURSIVE ResolveProps_StoppingAtFailure(_, _, _)
ResolveProps_StoppingAtFailure(props, ctx, lv) ==
    IF props = <<>> THEN lv
    ELSE IF Head(props).type = "expression" /\ ~Resolves(ctx, Head(props).v)
    THEN [lv EXCEPT ![Head(props).name] = NoneV]
    ELSE ResolveProps_StoppingAtFailure(Tail(props), ctx,
                      [lv EXCEPT ![Head(props).name] = ResolveProp(Head(props), ctx)])

RECURSIVE ResolveProps(_, _, _)
ResolveProps(props, ctx, lv) ==
    IF props = <<>> THEN lv
    ELSE ResolveProps(Tail(props), ctx,
                      [lv EXCEPT ![Head(props).name] = ResolveProp(Head(props), ctx)])

\* a faulty lookup stage, for comparison: a component that cannot be found raises
UILookedUp_Raising(s, got) ==
    IF got.node = NONE
    THEN Exit(s, Throw(s), "placeholder")
    ELSE SetTop(s, [Top(s) EXCEPT !.pc = "props", !.body = got.node, !.by = got.by])

\* a faulty order of the stages, for comparison: the properties are resolved before
\* the component is looked up, so they are resolved for a component that is not found
UILookedUp_PropertiesFirst(s, got) ==
    IF got.node = NONE
    THEN Placeholder(SetTop(s, [Top(s) EXCEPT
                         !.lv = ResolveProps(Nodes[Top(s).n].props, Ctx(s), EmptyLayer)]),
                     ERR_NOTFOUND)
    ELSE SetTop(s, [Top(s) EXCEPT !.pc = "props", !.body = got.node, !.by = got.by])

\* lines 469-474: locate the component nodelist
UILookedUp(s, got) ==
    IF got.node = NONE
    THEN Placeholder(s, ERR_NOTFOUND)
    ELSE SetTop(s, [Top(s) EXCEPT !.pc = "props", !.body = got.node, !.by = got.by])

\* what the render has found by the re-index so far: (identity, name, body)
LazyFind(tpl_name, comp_name, got) ==
    IF got.by = 4 THEN {[tpl |-> tpl_name, comp |-> comp_name, body |-> got.node]} ELSE {}

UILookUpWith(s, got) ==
    [UILookedUp(SetTop(SetCtx(s, [Ctx(s) EXCEPT !.rc.PALETTE_COMPONENTS = got.reg]),
                       [Top(s) EXCEPT !.looked = got.reg, !.seen = s.lazy]), got)
        EXCEPT !.lazy = @ \cup LazyFind(Top(s).tpl, Top(s).comp, got)]

UILookUpComponent(s) ==
    UILookUpWith(s, find_component_in_registry(Ctx(s).rc.PALETTE_COMPONENTS,
                                               Top(s).tpl, Top(s).comp))

UIResolveProperties(s) ==
    SetTop(s, [Top(s) EXCEPT !.pc = "collect",
                             !.lv = ResolveProps(Nodes[Top(s).n].props, Ctx(s), EmptyLayer)])

\* lines 503-511: every palette_override node found under the inline body; a later
\* declaration of a name replaces an earlier one
RECURSIVE CollectOverrides(_, _)
CollectOverrides(ids, ov) ==
    IF ids = <<>> THEN ov
    ELSE LET n == Nodes[Head(ids)] IN
         CollectOverrides(Tail(ids),
             IF n.kind = "override" THEN [ov EXCEPT ![n.name] = Head(ids)] ELSE ov)

collect_overrides(engine, inner) ==
    CollectOverrides(iter_nodelist_recursive(engine, inner), NoOverrides)

UICollectOverrides(s) ==
    SetTop(s, [Top(s) EXCEPT !.pc = "scoped",
                             !.ov = collect_overrides("palette", Nodes[Top(s).n].nodelist)])

\* context[k] = v for every resolved property
Inject(layer, lv) == [v \in VarNames |-> IF lv[v] # Unbound THEN lv[v] ELSE layer[v]]

\* render_context.get("palette_overrides", None)
GetOrNone(entry) == IF entry.st = ABSENT THEN [entry EXCEPT !.st = "none"] ELSE entry

\* a faulty install, for comparison: the overrides of the invocation are merged into
\* the installed ones instead of replacing them
UIScopedRendering_Inheriting(s) ==
    LET f    == Top(s)
        ctx  == Ctx(s)
        rc1  == [ctx.rc EXCEPT
                   !.palette_overrides =
                       [st |-> "dict",
                        m |-> [b \in BlockNames |->
                                 IF f.ov[b] # NONE THEN f.ov[b]
                                 ELSE IF ctx.rc.palette_overrides.st = "dict"
                                      THEN ctx.rc.palette_overrides.m[b] ELSE NONE]],
                   !.palette_current_component = f.comp]
        c1   == Push([ctx EXCEPT !.rc = rc1])
        top  == Len(c1.dicts)
        lay  == [Inject(c1.dicts[top], f.lv) EXCEPT
                   !["PALETTE_COMPONENTS"] = RegistryObj,
                   !["component_name"] = Str(f.comp)]
        c2   == [c1 EXCEPT !.dicts[top] = lay]
        f1   == [f EXCEPT !.pc = "body", !.pushed = TRUE,
                          !.prevOv = GetOrNone(ctx.rc.palette_overrides),
                          !.prevCur = IF ctx.rc.palette_current_component = ABSENT
                                      THEN NONE ELSE ctx.rc.palette_current_component]
    IN PushF(SetCtx(SetTop(s, f1), c2), NodelistFrame(Nodes[f.body].nodelist, f.c))

\* lines 515-535: save the previous state, install, push a layer, inject, render
UIScopedRendering(s) ==
    LET f    == Top(s)
        ctx  == Ctx(s)
        rc1  == [ctx.rc EXCEPT
                   !.palette_overrides = [st |-> "dict", m |-> f.ov],
                   !.palette_current_component = f.comp]
        c1   == Push([ctx EXCEPT !.rc = rc1])
        top  == Len(c1.dicts)
        lay  == [Inject(c1.dicts[top], f.lv) EXCEPT
                   !["PALETTE_COMPONENTS"] = RegistryObj,
                   !["component_name"] = Str(f.comp)]
        c2   == [c1 EXCEPT !.dicts[top] = lay]
        f1   == [f EXCEPT !.pc = "body", !.pushed = TRUE,
                          !.prevOv = GetOrNone(ctx.rc.palette_overrides),
                          !.prevCur = IF ctx.rc.palette_current_component = ABSENT
                                      THEN NONE ELSE ctx.rc.palette_current_component]
    IN PushF(SetCtx(SetTop(s, f1), c2), NodelistFrame(Nodes[f.body].nodelist, f.c))

\* a faulty handler, for comparison: no except clause, the exception of the body
\* leaves the invocation
UIBodyFinished_Propagating(s) ==
    IF s.ret.st = "exc"
    THEN Exit(s, PopF(s), "error")
    ELSE SetTop([s EXCEPT !.ret = NoRet],
                [Top(s) EXCEPT !.pc = "restore", !.acc = s.ret.out, !.idx = 0])

\* lines 535-540: the body returned a string, or raised and the handler turns the
\* exception into a diagnostic
UIBodyFinished(s) ==
    SetTop([s EXCEPT !.ret = NoRet],
           [Top(s) EXCEPT !.pc = "restore",
                          !.acc = IF s.ret.st = "val" THEN s.ret.out ELSE <<ERR_RENDER>>,
                          !.idx = IF s.ret.st = "val" THEN 0 ELSE 1])

\* a faulty exit, for comparison: the layer is popped but the overrides of this
\* invocation stay installed
UIRestore_KeepingOverrides(s) ==
    LET f   == Top(s)
        c1  == Pop(Ctx(s))
        c2  == [c1 EXCEPT !.rc.palette_current_component = f.prevCur]
        s1  == SetCtx(s, c2)
    IN Exit(s1, Return(s1, f.acc), IF f.idx = 0 THEN "ok" ELSE "error")

\* a faulty exit, for comparison: the clean-up follows the try statement instead of
\* being its finally clause, so it is skipped when the body raised
UIRestore_OnSuccessOnly(s) ==
    LET f   == Top(s)
        c1  == Pop(Ctx(s))
        c2  == [c1 EXCEPT !.rc.palette_overrides = f.prevOv,
                          !.rc.palette_current_component = f.prevCur]
        s1  == IF f.idx = 0 THEN SetCtx(s, c2) ELSE s
    IN Exit(s1, Return(s1, f.acc), IF f.idx = 0 THEN "ok" ELSE "error")

\* lines 541-549: finally: pop the layer, restore the previous state; return
UIRestore(s) ==
    LET f   == Top(s)
        c1  == Pop(Ctx(s))
        c2  == [c1 EXCEPT !.rc.palette_overrides = f.prevOv,
                          !.rc.palette_current_component = f.prevCur]
        s1  == SetCtx(s, c2)
    IN Exit(s1, Return(s1, f.acc), IF f.idx = 0 THEN "ok" ELSE "error")

(***************************************************************************)
(* palette.py: PaletteBlockNode.render                                     *)
(***************************************************************************)
\* line 128: render the base content first
BlockRenderBase(s) ==
    PushF(SetTop(s, [Top(s) EXCEPT !.pc = "base"]),
          NodelistFrame(Nodes[Top(s).n].nodelist, Top(s).c))

\* a faulty reading, for comparison: a block for which nothing is declared takes any
\* override the invocation declared
InstalledOverrides_AnyName(rc) ==
    LET m == IF rc.palette_overrides.st = "dict" THEN rc.palette_overrides.m
             ELSE NoOverrides
        declared == { m[b] : b \in BlockNames } \ {NONE}
    IN [b \in BlockNames |->
           IF m[b] # NONE \/ declared = {} THEN m[b]
           ELSE CHOOSE o \in declared : TRUE]

\* context.render_context.get("palette_overrides", {}) or {}
InstalledOverrides(rc) ==
    IF rc.palette_overrides.st = "dict" THEN rc.palette_overrides.m ELSE NoOverrides

\* lines 131-150: no override: the base content; otherwise the override nodelist is
\* rendered in a new Context made of the flattened variables plus `block`
BlockBaseFinished(s) ==
    LET f    == Top(s)
        name == Nodes[f.n].name
        ovs  == InstalledOverrides(Ctx(s).rc)
    IN IF s.ret.st = "exc" THEN BlockExit(s, PopF(s), f.n)
       ELSE IF ovs[name] = NONE THEN BlockExit(s, Return(s, s.ret.out), f.n)
       ELSE LET tmp == NewContext([Flatten(Ctx(s)) EXCEPT
                                      !["block"] = BlockObj(s.ret.out)])
                s1  == [s EXCEPT !.ctxs = Append(@, tmp), !.ret = NoRet]
            IN PushF(SetTop(s1, [f EXCEPT !.pc = "override", !.body = ovs[name]]),
                     NodelistFrame(Nodes[ovs[name]].nodelist, Len(s1.ctxs)))

\* line 150: the override's rendering is the block's; the temporary Context is dropped
BlockOverrideFinished(s) ==
    BlockExit(s, [PopF(s) EXCEPT !.ctxs = SubSeq(@, 1, Len(@) - 1)], Top(s).body)

(***************************************************************************)
(* palette.py: PaletteComponentNode.render                                 *)
(***************************************************************************)
\* lines 214-224: register the nodelist, expose the registry, render the default
ComponentRegisterAndRender(s) ==
    LET f   == Top(s)
        n   == Nodes[f.n]
        ctx == Ctx(s)
        c1  == [ctx EXCEPT !.rc.PALETTE_COMPONENTS = RegPut(@, n.key, n.comp, f.n)]
        c2  == SetVar(c1, "PALETTE_COMPONENTS", RegistryObj)
    IN PushF(SetCtx(SetTop(s, [f EXCEPT !.pc = "body", !.entry = ctx]), c2),
             NodelistFrame(n.nodelist, f.c))

\* the return of a component definition's render, as its caller observes it
ComponentExit(s, after) ==
    [after EXCEPT !.last =
        [NoEvent EXCEPT !.k = "component_exit", !.n = Top(s).n,
                        !.entry = Top(s).entry, !.exit = after.ctxs[Top(s).c],
                        !.raised = (after.ret.st = "exc"), !.out = after.ret.out]]

\* line 224: whatever the nodelist produced, value or exception, is the result
ComponentFinished(s) == ComponentExit(s, PopF(s))

(***************************************************************************)
(* A page rendered with the palette.py tags                                *)
(***************************************************************************)
\* the top-level nodes a page may hold: component definitions and invocations
PagePool == {"d_alt", "u_plain", "u_ov", "u_sup", "u_outer", "u_wrap",
             "u_boom", "u_empty", "b_top"}

\* the caller's variables
Ambients ==
    { [EmptyLayer EXCEPT !["title"] = Str("T0"), !["tplvar"] = Str(TCARD),
                         !["compvar"] = Str("card")],
      [EmptyLayer EXCEPT !["title"] = Str("T0"), !["compvar"] = Str("card"),
                         !["component_name"] = Str("page")],
      [EmptyLayer EXCEPT !["title"] = Str("T0"), !["tplvar"] = Str(TCARD),
                         !["compvar"] = Faulty] }

\* a page: the nodes it may hold and how many of them
Page(pool, max) == [pool |-> pool, max |-> max]

NewThread(engine, ambient, pg) ==
    [engine |-> engine, stack |-> <<>>, ctxs |-> <<NewContext(ambient)>>,
     ret |-> NoRet, page |-> <<>>, cur |-> NONE, crashed |-> FALSE,
     last |-> NoEvent, lastb |-> NoBlockEvent, pool |-> pg.pool, max |-> pg.max,
     amb |-> ambient, lazy |-> {}, tname |-> NONE]

\* pages of definitions followed by invocations of "card", to exercise the lookup
LookupPool == {"d_card", "d_alt", "d_abs", "u_plain", "u_oth", "u_nocomp"}

\* pages of invocations whose references resolve or fail in each possible way, and
\* of invocations with properties
RefPool == {"u_plain", "u_gone", "u_lost", "u_none", "u_oth", "u_var",
            "u_props", "u_fault", "u_cname"}

\* pages with an invocation made from inside an override body
MaxNestTop == 2

NestPool == {"u_ovui", "u_plain", "d_card", "uE"}

MaxDeclTop == 2    \* top-level nodes of a page of invocations that declare overrides

\* invocations whose override declarations are nested, unmatched, or made for a
\* block whose default body raises, and one whose component body invokes a
\* component that is not found
DeclPool == {"u_plain", "u_nest", "u_unm", "u_frag", "u_host"}

Pages == { Page(PagePool, MaxTop), Page(LookupPool, MaxLookupTop),
           Page(RefPool, MaxRefTop), Page(NestPool, MaxNestTop),
           Page(DeclPool, MaxDeclTop) }

Init ==
    /\ \E a \in Ambients, pg \in Pages :
          th = [t \in Solo |-> NewThread("palette", a, pg)]
    /\ cache = <<>>

\* a faulty design, for comparison: the registry is one module-level dict, so what
\* a render registers is in the registry of every render
Step_SharingRegistry(t, s1) ==
    /\ th' = [u \in DOMAIN th |->
                IF u = t THEN s1
                ELSE [th[u] EXCEPT !.ctxs[1].rc.PALETTE_COMPONENTS =
                                       s1.ctxs[1].rc.PALETTE_COMPONENTS]]
    /\ UNCHANGED cache

\* a step of a render acts on the Context the render was given and on nothing else
Step(t, s1) == th' = [th EXCEPT ![t] = s1] /\ UNCHANGED cache

\* Template.render reaches the next top-level node of the page
PageNext(t) ==
    \E n \in th[t].pool :
        /\ ~Running(th[t]) /\ th[t].ret.st = "none" /\ ~th[t].crashed
        /\ th[t].engine = "palette"
        /\ Len(th[t].page) < th[t].max
        /\ Step(t, PushF([th[t] EXCEPT !.cur = n],
                         [Frame(Nodes[n].kind, n, 1) EXCEPT
                            !.pc = IF Nodes[n].kind = "ui" THEN "resolve" ELSE "start"]))

\* the node's output joins the page; an exception aborts the page render
PageCollect(t) ==
    /\ ~Running(th[t]) /\ th[t].ret.st # "none"
    /\ Step(t, [th[t] EXCEPT
                  !.page = Append(@, [n |-> th[t].cur, st |-> th[t].ret.st,
                                      out |-> th[t].ret.out]),
                  !.crashed = (th[t].ret.st = "exc"),
                  !.ret = NoRet])

NLText(t) ==
    /\ Waiting(th[t]) /\ HasNode(th[t])
    /\ CurNode(th[t]).kind \in {"text", "override", "extends"}
    /\ Step(t, RenderText(th[t]))

NLVar(t) ==
    /\ Waiting(th[t]) /\ HasNode(th[t])
    /\ CurNode(th[t]).kind = "var"
    /\ CurNode(th[t]).name \notin {"block.super", "palette_ui.super"}
    /\ Step(t, RenderVar(th[t]))

NLBlockSuperString(t) ==
    /\ Waiting(th[t]) /\ HasNode(th[t])
    /\ CurNode(th[t]).kind = "var" /\ CurNode(th[t]).name = "block.super"
    /\ Lookup(Ctx(th[t]), "block").t # "bsuper"
    /\ Step(t, RenderBlockSuperString(th[t]))

NLRaise(t) ==
    /\ Waiting(th[t]) /\ HasNode(th[t])
    /\ CurNode(th[t]).kind = "raise"
    /\ Step(t, Throw(th[t]))

NLCall(t) ==
    /\ Waiting(th[t]) /\ HasNode(th[t])
    /\ CurNode(th[t]).kind \in {"block", "component", "ui", "if"}
    /\ Step(t, LET s1 == CallNode(th[t]) IN
               SetTop(s1, [Top(s1) EXCEPT
                   !.pc = IF Top(s1).k = "ui" THEN "resolve" ELSE "start"]))

NLResume(t) ==
    /\ Returned(th[t]) /\ Top(th[t]).k = "nodelist"
    /\ Step(t, NodelistResume(th[t]))

NLDone(t) ==
    /\ Waiting(th[t]) /\ Top(th[t]).k = "nodelist" /\ ~HasNode(th[t])
    /\ Step(t, NodelistDone(th[t]))

IsPalette(t) == th[t].engine = "palette"

UIResolve(t) ==
    /\ IsPalette(t) /\ Waiting(th[t]) /\ At(th[t], "ui", "resolve")
    /\ Step(t, UIResolveReferences(th[t]))

UILoad(t) ==
    /\ IsPalette(t) /\ Waiting(th[t]) /\ At(th[t], "ui", "load")
    /\ Step(t, UILoadTemplate(th[t]))

UILookup(t) ==
    /\ IsPalette(t) /\ Waiting(th[t]) /\ At(th[t], "ui", "lookup")
    /\ Step(t, UILookUpComponent(th[t]))

UIProps(t) ==
    /\ IsPalette(t) /\ Waiting(th[t]) /\ At(th[t], "ui", "props")
    /\ Step(t, UIResolveProperties(th[t]))

UICollect(t) ==
    /\ IsPalette(t) /\ Waiting(th[t]) /\ At(th[t], "ui", "collect")
    /\ Step(t, UICollectOverrides(th[t]))

UIScoped(t) ==
    /\ IsPalette(t) /\ Waiting(th[t]) /\ At(th[t], "ui", "scoped")
    /\ Step(t, UIScopedRendering(th[t]))

UIBodyEnd(t) ==
    /\ IsPalette(t) /\ Returned(th[t]) /\ At(th[t], "ui", "body")
    /\ Step(t, UIBodyFinished(th[t]))

UIRestoring(t) ==
    /\ IsPalette(t) /\ Waiting(th[t]) /\ At(th[t], "ui", "restore")
    /\ Step(t, UIRestore(th[t]))

BlockStart(t) ==
    /\ IsPalette(t) /\ Waiting(th[t]) /\ At(th[t], "block", "start")
    /\ Step(t, BlockRenderBase(th[t]))

BlockBaseEnd(t) ==
    /\ IsPalette(t) /\ Returned(th[t]) /\ At(th[t], "block", "base")
    /\ Step(t, BlockBaseFinished(th[t]))

BlockOverrideEnd(t) ==
    /\ IsPalette(t) /\ Returned(th[t]) /\ At(th[t], "block", "override")
    /\ Step(t, BlockOverrideFinished(th[t]))

ComponentStart(t) ==
    /\ IsPalette(t) /\ Waiting(th[t]) /\ At(th[t], "component", "start")
    /\ Step(t, ComponentRegisterAndRender(th[t]))

ComponentEnd(t) ==
    /\ IsPalette(t) /\ Returned(th[t]) /\ At(th[t], "component", "body")
    /\ Step(t, ComponentFinished(th[t]))

Next ==
    \E t \in Threads :
        \/ PageNext(t) \/ PageCollect(t)
        \/ NLText(t) \/ NLVar(t) \/ NLBlockSuperString(t) \/ NLRaise(t)
        \/ NLCall(t) \/ NLResume(t) \/ NLDone(t)
        \/ UIResolve(t) \/ UILoad(t) \/ UILookup(t) \/ UIProps(t) \/ UICollect(t)
        \/ UIScoped(t) \/ UIBodyEnd(t) \/ UIRestoring(t)
        \/ BlockStart(t) \/ BlockBaseEnd(t) \/ BlockOverrideEnd(t)
        \/ ComponentStart(t) \/ ComponentEnd(t)

Spec == Init /\ [][Next]_vars

(***************************************************************************)
(* palette_v2.py: the cached structural index                               *)
(***************************************************************************)
index_maxsize == 256      \* @lru_cache(maxsize=256)

\* the body of _index_template_components for a template that loads:
\* {'components': {name: node}, 'parent': parent_name_or_None}, from the nodes
\* the recursive walk yields
IsDefOf(id, c) == Nodes[id].kind = "component" /\ Nodes[id].comp = c
IsExtends(id)  == Nodes[id].kind = "extends"

LastDef(all, c) ==
    IF \E j \in 1..Len(all) : IsDefOf(all[j], c)
    THEN all[CHOOSE j \in 1..Len(all) :
                IsDefOf(all[j], c) /\ \A k \in (j + 1)..Len(all) : ~IsDefOf(all[k], c)]
    ELSE NONE

FirstParent(all) ==
    IF \E j \in 1..Len(all) : IsExtends(all[j])
    THEN Nodes[all[CHOOSE j \in 1..Len(all) :
                IsExtends(all[j]) /\ \A k \in 1..(j - 1) : ~IsExtends(all[k])]].name
    ELSE NONE

IndexFrom(all) ==
    [components |-> [c \in CompNames |-> LastDef(all, c)], parent |-> FirstParent(all)]

IndexOf(template_name) ==
    IndexFrom(iter_nodelist_recursive("palette_v2", RootNodelist(template_name)))

InCache(c, name) == \E j \in 1..Len(c) : c[j] = name

\* lru_cache bookkeeping: most recently used last, the oldest entry evicted
CacheTouch(c, name) ==
    LET rest == SelectSeq(c, LAMBDA x : x # name)
        all  == Append(rest, name)
    IN IF Len(all) > index_maxsize THEN Tail(all) ELSE all

\* _index_template_components: [ok, idx, cache]; a load failure raises
\* TemplateSyntaxError (ok = FALSE) and caches nothing
index_template_components(c, template_name) ==
    IF InCache(c, template_name) \/ Loads(template_name)
    THEN [ok |-> TRUE, idx |-> IndexOf(template_name),
          cache |-> CacheTouch(c, template_name)]
    ELSE [ok |-> FALSE, idx |-> [components |-> [x \in CompNames |-> NONE],
                                 parent |-> NONE],
          cache |-> c]

\* the wrapper calls the function, and with it loader.get_template, only on a miss
LoaderInvoked(c, template_name) == ~InCache(c, template_name)

\* clear_palette_cache: _index_template_components.cache_clear()
clear_palette_cache(c) == <<>>

(***************************************************************************)
(* palette_v2.py: PaletteBlockContext                                      *)
(***************************************************************************)
\* a faulty add_block, for comparison: the prepend flag is ignored and every
\* nodelist goes to the front
add_block_prepending(blocks, name, nodelist, prepend) ==
    [blocks EXCEPT ![name] = <<nodelist>> \o @]

\* a faulty push_override, for comparison: the override goes to the back
push_override_appending(blocks, name, nodelist) ==
    [blocks EXCEPT ![name] = Append(@, nodelist)]

\* add_block(name, nodelist, prepend)
add_block(blocks, name, nodelist, prepend) ==
    [blocks EXCEPT ![name] = IF prepend THEN <<nodelist>> \o @ ELSE Append(@, nodelist)]

push_override(blocks, name, nodelist) == add_block(blocks, name, nodelist, TRUE)

get_stack(blocks, name) == blocks[name]

\* the palette_block nodes of a component body, appended in walk order
RECURSIVE AddBlocks(_, _)
AddBlocks(ids, blocks) ==
    IF ids = <<>> THEN blocks
    ELSE AddBlocks(Tail(ids),
             IF Nodes[Head(ids)].kind = "block"
             THEN add_block(blocks, Nodes[Head(ids)].name, Head(ids), FALSE)
             ELSE blocks)

\* for name, nlist in user_overrides.items(): push_override(name, nlist)
PushOverrides(blocks, ov) ==
    [b \in BlockNames |->
        IF ov[b] # NONE THEN push_override(blocks, b, ov[b])[b] ELSE blocks[b]]

(***************************************************************************)
(* palette_v2.py: PaletteUIRenderNode.render, stage by stage               *)
(***************************************************************************)
PlaceholderV2(s, diag) == Exit(s, Return(s, <<diag>>), "placeholder")

\* lines 367-373: resolve the file token; the component name is taken as written
V2ResolveFile(s) ==
    LET n  == Nodes[Top(s).n]
        f  == [Top(s) EXCEPT !.entry = Ctx(s)]
        s1 == SetTop(s, f)
    IN IF ~n.fileX.lit /\ ~Resolves(Ctx(s), n.fileX.v)
       THEN PlaceholderV2(s1, ERR_REF)
       ELSE SetTop(s1, [f EXCEPT !.pc = "props",
                                 !.tpl = NameOf(resolve_token(n.fileX, Ctx(s))),
                                 !.comp = n.compX.v])

\* lines 376-381
V2ResolveProps(s) ==
    SetTop(s, [Top(s) EXCEPT !.pc = "lookup",
                             !.lv = ResolveProps(Nodes[Top(s).n].props, Ctx(s), EmptyLayer)])

\* "if comp_nodelist": a NodeList is a list, so one without nodes counts as not found
Found(node) == node # NONE /\ Nodes[node].nodelist # <<>>

\* strategy 3, lines 408-415: the first registered key of the same filename that
\* holds the component
BasenameKey(reg, tpl_name, comp_name) ==
    IF \E j \in 1..Len(reg.keys) :
          basename(reg.keys[j]) = basename(tpl_name)
          /\ Found(RegGet(reg, reg.keys[j], comp_name))
    THEN reg.keys[CHOOSE j \in 1..Len(reg.keys) :
            /\ basename(reg.keys[j]) = basename(tpl_name)
            /\ Found(RegGet(reg, reg.keys[j], comp_name))
            /\ \A k \in 1..(j - 1) :
                  ~(basename(reg.keys[k]) = basename(tpl_name)
                    /\ Found(RegGet(reg, reg.keys[k], comp_name)))]
    ELSE NONE

LookupResult(status, node, origin_key, by, reg, c) ==
    [status |-> status, node |-> node, origin_key |-> origin_key, by |-> by,
     reg |-> reg, cache |-> c]

\* strategy 4, lines 418-430: the cached index; what it finds is registered under
\* the requested name, and an empty nodelist still counts as not found
V2Strategy4(reg, ix, tpl_name, comp_name) ==
    IF ~ix.ok \/ ix.idx.components[comp_name] = NONE
    THEN LookupResult("notfound", NONE, NONE, 0, reg, ix.cache)
    ELSE IF Found(ix.idx.components[comp_name])
    THEN LookupResult("found", ix.idx.components[comp_name], tpl_name, 4,
                      RegPut(reg, tpl_name, comp_name, ix.idx.components[comp_name]),
                      ix.cache)
    ELSE LookupResult("notfound", NONE, tpl_name, 0,
                      RegPut(reg, tpl_name, comp_name, ix.idx.components[comp_name]),
                      ix.cache)

V2Strategy3(reg, c, key3, tpl_name, comp_name) ==
    IF key3 # NONE
    THEN LookupResult("found", RegGet(reg, key3, comp_name), key3, 3, reg, c)
    ELSE V2Strategy4(reg, index_template_components(c, tpl_name), tpl_name, comp_name)

\* lines 385-430: [status, node, origin_key, by, reg, cache]
find_component_v2(reg, c, tpl_name, comp_name) ==
    IF Found(RegGet(reg, tpl_name, comp_name))
    THEN LookupResult("found", RegGet(reg, tpl_name, comp_name), tpl_name, 1, reg, c)
    ELSE IF ~Loads(tpl_name)
    THEN LookupResult("notemplate", NONE, NONE, 0, reg, c)
    ELSE IF Found(RegGet(reg, TemplateObjName(tpl_name), comp_name))
    THEN LookupResult("found", RegGet(reg, TemplateObjName(tpl_name), comp_name),
                      TemplateObjName(tpl_name), 2, reg, c)
    ELSE V2Strategy3(reg, c, BasenameKey(reg, tpl_name, comp_name), tpl_name, comp_name)

\* the lookup stage, lines 385-430; the walk of lines 343-345 is set up on success
V2LookedUp(s, got) ==
    CASE got.status = "notemplate" -> PlaceholderV2(s, ERR_TEMPLATE)
      [] got.status = "notfound"   -> PlaceholderV2(s, ERR_NOTFOUND)
      [] OTHER -> SetTop(s, [Top(s) EXCEPT !.pc = "walk", !.body = got.node,
                                          !.by = got.by, !.current = got.origin_key,
                                          !.visited = <<>>, !.merged = NoBlockCtx])

V2LookUpWith(s, got) ==
    [cache |-> got.cache,
     s |-> V2LookedUp(SetCtx(s, [Ctx(s) EXCEPT !.rc.palette_registry = got.reg]), got)]

V2LookUp(s, c) ==
    V2LookUpWith(s, find_component_v2(RegEnsure(Ctx(s).rc.palette_registry), c,
                                      Top(s).tpl, Top(s).comp))

InSeq(seq, x) == \E j \in 1..Len(seq) : seq[j] = x

\* a faulty loop condition, for comparison: "while current"
WalkContinues_Unguarded(f) == f.current # NONE

\* "while current and current not in visited"
WalkContinues(f) == f.current # NONE /\ ~InSeq(f.visited, f.current)

\* lines 352-359: the blocks of the component, if this template defines it
MergeComponent(merged, def) ==
    IF def = NONE THEN merged
    ELSE AddBlocks(iter_nodelist_recursive("palette_v2", Nodes[def].nodelist), merged)

\* a faulty loop body, for comparison: the index is taken outside any try
\* statement, so its TemplateSyntaxError leaves the invocation
V2WalkWith_Uncaught(s, f, ix) ==
    IF ix.ok
    THEN [cache |-> ix.cache,
          s |-> SetTop(s, [f EXCEPT
                   !.visited = Append(@, f.current),
                   !.merged = MergeComponent(@, ix.idx.components[f.comp]),
                   !.current = ix.idx.parent])]
    ELSE [cache |-> ix.cache,
          s |-> Exit(SetTop(s, [f EXCEPT !.visited = Append(@, f.current)]),
                     Throw(s), "error")]

\* one iteration of the loop of _build_palette_block_context_for_component,
\* lines 346-363; a break is the loop left with nothing more to visit
V2WalkWith(s, f, ix) ==
    [cache |-> ix.cache,
     s |-> SetTop(s, [f EXCEPT
              !.visited = Append(@, f.current),
              !.merged = IF ix.ok THEN MergeComponent(@, ix.idx.components[f.comp]) ELSE @,
              !.current = IF ix.ok THEN ix.idx.parent ELSE NONE])]

V2WalkStep(s, c) == V2WalkWith(s, Top(s), index_template_components(c, Top(s).current))

\* lines 436-439: the caller's overrides go in front of the merged stacks
V2CollectOverrides(s) ==
    LET f  == Top(s)
        ov == collect_overrides("palette_v2", Nodes[f.n].nodelist)
    IN SetTop(s, [f EXCEPT !.pc = "install", !.ov = ov, !.walked = f.merged,
                           !.merged = PushOverrides(f.merged, ov)])

\* lines 442-458: install the block context, expose the registry, push a layer, inject
\* the properties and render the inline body into `children`
V2Install(s) ==
    LET f   == Top(s)
        ctx == Ctx(s)
        c1  == [ctx EXCEPT !.rc.palette_block_context = [st |-> "obj", blocks |-> f.merged]]
        c2  == SetVar(c1, "PALETTE_COMPONENTS", RegistryObj)
        c3  == Push(c2)
        c4  == [c3 EXCEPT !.dicts[Len(c3.dicts)] = Inject(@, f.lv)]
        f1  == [f EXCEPT !.pc = "children", !.pushed = TRUE,
                         !.prevPbc = ctx.rc.palette_block_context]
    IN PushF(SetCtx(SetTop(s, f1), c4), NodelistFrame(Nodes[f.n].nodelist, f.c))

\* lines 458-460: children is bound, then the component nodelist is rendered; an
\* exception goes straight to the finally clause
V2ChildrenFinished(s) ==
    LET f == Top(s) IN
    IF s.ret.st = "exc"
    THEN SetTop([s EXCEPT !.ret = NoRet], [f EXCEPT !.pc = "restore", !.idx = 1])
    ELSE PushF(SetCtx(SetTop([s EXCEPT !.ret = NoRet], [f EXCEPT !.pc = "body"]),
                      SetVar(Ctx(s), "children", Rendered(s.ret.out))),
               NodelistFrame(Nodes[f.body].nodelist, f.c))

V2BodyFinished(s) ==
    SetTop([s EXCEPT !.ret = NoRet],
           [Top(s) EXCEPT !.pc = "restore", !.acc = s.ret.out,
                          !.idx = IF s.ret.st = "val" THEN 0 ELSE 1])

\* lines 461-469: finally: pop the layer, put the previous block context back (or
\* remove the key); then return the rendering, or let the exception continue
V2Restore(s) ==
    LET f  == Top(s)
        c1 == [Pop(Ctx(s)) EXCEPT !.rc.palette_block_context = f.prevPbc]
        s1 == SetCtx(s, c1)
    IN IF f.idx = 0
       THEN Exit(s1, Return(s1, f.acc), "ok")
       ELSE Exit(s1, Throw(s1), "error")

(***************************************************************************)
(* palette_v2.py: PaletteBlockNode.render and _BlockSuper.super            *)
(***************************************************************************)
\* context.get('block', None)
GetBlock(ctx) == LET v == Lookup(ctx, "block") IN IF v = Unbound THEN NoneV ELSE v

\* the finally clauses of lines 149-157 and 164-172
RestoreBlock(ctx, prev_block) ==
    IF prev_block = NoneV THEN DelVar(ctx, "block") ELSE SetVar(ctx, "block", prev_block)

\* lines 121-163: without a block context or a stack, the node's own nodelist;
\* otherwise the top of the stack, with `block` pointing at index 0 (the frame
\* remembers in entry the Context it was called with)
V2BlockRender(s) ==
    LET f     == Top(s)
        pbc   == Ctx(s).rc.palette_block_context
        stack == IF pbc.st = ABSENT THEN <<>> ELSE get_stack(pbc.blocks, Nodes[f.n].name)
    IN IF stack = <<>>
       THEN PushF(SetTop(s, [f EXCEPT !.pc = "fallback", !.entry = Ctx(s)]),
                  NodelistFrame(Nodes[f.n].nodelist, f.c))
       ELSE PushF(SetCtx(SetTop(s, [f EXCEPT !.pc = "top", !.stack = stack, !.idx = 0,
                                             !.prevBlock = GetBlock(Ctx(s)),
                                             !.entry = Ctx(s)]),
                         SetVar(Ctx(s), "block", BlockSuper(stack, 0))),
                  NodelistFrame(Nodes[stack[1]].nodelist, f.c))

V2BlockFallbackFinished(s) == BlockExit(s, PopF(s), Top(s).n)

\* lines 164-172
V2BlockFinished(s) ==
    BlockExit(s, PopF(SetCtx(s, RestoreBlock(Ctx(s), Top(s).prevBlock))), Top(s).stack[1])

\* a faulty handle, for comparison: "if next_index > len(self._stack)", so the last
\* entry's request indexes past the end of the stack and raises
V2SuperRender_PastEnd(s) ==
    LET b    == Lookup(Ctx(s), "block")
        next == b.i + 1
    IN IF next > Len(b.s) THEN Emit(s, <<>>)
       ELSE IF next = Len(b.s) THEN Throw(s)
       ELSE PushF(PushF(SetCtx(s, SetVar(Ctx(s), "block", BlockSuper(b.s, next))),
                        [Frame("super", "", Top(s).c) EXCEPT
                            !.pc = "next", !.stack = b.s, !.idx = next, !.prevBlock = b,
                            !.entry = Ctx(s)]),
                  NodelistFrame(Nodes[b.s[next + 1]].nodelist, Top(s).c))

\* lines 139-148: {{ block.super }} on a _BlockSuper: "" past the end of the stack,
\* otherwise the next entry rendered with `block` pointing at it
V2SuperRender(s) ==
    LET b    == Lookup(Ctx(s), "block")
        next == b.i + 1
    IN IF next >= Len(b.s)
       THEN Emit(s, <<>>)
       ELSE PushF(PushF(SetCtx(s, SetVar(Ctx(s), "block", BlockSuper(b.s, next))),
                        [Frame("super", "", Top(s).c) EXCEPT
                            !.pc = "next", !.stack = b.s, !.idx = next, !.prevBlock = b,
                            !.entry = Ctx(s)]),
                  NodelistFrame(Nodes[b.s[next + 1]].nodelist, Top(s).c))

\* lines 149-157
V2SuperFinished(s) ==
    PopF(SetCtx(s, RestoreBlock(Ctx(s), Top(s).prevBlock)))

\* IfNode.render: the nodelist of the branch the condition selects
IfRender(s) ==
    LET n == Nodes[Top(s).n] IN
    PushF(SetTop(s, [Top(s) EXCEPT !.pc = "branch"]),
          NodelistFrame(IF Truthy(Resolve(Ctx(s), n.name)) THEN n.nodelist
                        ELSE n.nodelist_false, Top(s).c))

IfFinished(s) == PopF(s)

(***************************************************************************)
(* palette_v2.py: PaletteComponentDefNode.render                           *)
(***************************************************************************)
\* lines 198-224: the definition registers its nodelist under the name of the
\* template being rendered (context.template, the page), exposes the registry and
\* emits nothing
V2ComponentDefine(s) ==
    LET n   == Nodes[Top(s).n]
        ctx == Ctx(s)
        c1  == [ctx EXCEPT !.rc.palette_registry =
                   RegPut(RegEnsure(@), s.tname, n.comp, Top(s).n)]
    IN Return(SetCtx(s, SetVar(c1, "PALETTE_COMPONENTS", RegistryObj)), <<>>)

(***************************************************************************)
(* A page rendered with the palette_v2.py tags                             *)
(***************************************************************************)
PagePoolV2 == {"uA", "uA_ov", "uB", "uB_ov", "uCyc", "uSelf", "uBr", "uBr_ov", "uOrph",
               "u_plain", "u_ov", "u_sup", "u_outer", "u_boom", "u_empty",
               "u_nocomp", "u_notpl", "b_top"}

AmbientsV2 ==
    { [EmptyLayer EXCEPT !["title"] = Str("T0"), !["flag"] = Str("yes"),
                         !["compvar"] = Str("card")],
      [EmptyLayer EXCEPT !["title"] = Str("T0"), !["compvar"] = Faulty] }

\* pages of invocations of the chain whose bodies all ask for the previous content
MaxChainTop == 2

ChainPoolV2 == {"uS", "uS_ov", "uA_ov"}

PagesV2 == { Page(PagePoolV2, MaxTop), Page(ChainPoolV2, MaxChainTop) }

\* pages that render the definition of "card" (their own, or one they include)
\* before invoking it: the page is ui/card.html itself, a template of the same
\* filename, or a template object named by its path; one of the invocations passes
\* a property named block
MaxDefTop == 2

DefPoolV2 == {"d_card", "u_sup", "u_ov", "u_blk"}

DefNamesV2 == {TCARD, TALT, TABS}

InitV2 ==
    /\ \/ \E a \in AmbientsV2, pg \in PagesV2 :
             th = [t \in Solo |-> NewThread("palette_v2", a, pg)]
       \/ \E a \in AmbientsV2, nm \in DefNamesV2 :
             th = [t \in Solo |->
                     [NewThread("palette_v2", a, Page(DefPoolV2, MaxDefTop))
                         EXCEPT !.tname = nm]]
    /\ cache = <<>>

IsV2(t) == th[t].engine = "palette_v2"

StepC(t, r) == th' = [th EXCEPT ![t] = r.s] /\ cache' = r.cache

PageNextV2(t) ==
    \E n \in th[t].pool :
        /\ ~Running(th[t]) /\ th[t].ret.st = "none" /\ ~th[t].crashed
        /\ IsV2(t)
        /\ Len(th[t].page) < th[t].max
        /\ Step(t, PushF([th[t] EXCEPT !.cur = n],
                         [Frame(Nodes[n].kind, n, 1) EXCEPT
                            !.pc = IF Nodes[n].kind = "ui" THEN "resolve" ELSE "start"]))

NLBlockSuper(t) ==
    /\ Waiting(th[t]) /\ HasNode(th[t])
    /\ CurNode(th[t]).kind = "var" /\ CurNode(th[t]).name = "block.super"
    /\ Lookup(Ctx(th[t]), "block").t = "bsuper"
    /\ Step(t, V2SuperRender(th[t]))

SuperEnd(t) ==
    /\ Returned(th[t]) /\ At(th[t], "super", "next")
    /\ Step(t, V2SuperFinished(th[t]))

IfStart(t) ==
    /\ Waiting(th[t]) /\ At(th[t], "if", "start")
    /\ Step(t, IfRender(th[t]))

IfEnd(t) ==
    /\ Returned(th[t]) /\ At(th[t], "if", "branch")
    /\ Step(t, IfFinished(th[t]))

V2Resolve(t) ==
    /\ IsV2(t) /\ Waiting(th[t]) /\ At(th[t], "ui", "resolve")
    /\ Step(t, V2ResolveFile(th[t]))

V2Props(t) ==
    /\ IsV2(t) /\ Waiting(th[t]) /\ At(th[t], "ui", "props")
    /\ Step(t, V2ResolveProps(th[t]))

V2Lookup(t) ==
    /\ IsV2(t) /\ Waiting(th[t]) /\ At(th[t], "ui", "lookup")
    /\ StepC(t, V2LookUp(th[t], cache))

V2Walk(t) ==
    /\ IsV2(t) /\ Waiting(th[t]) /\ At(th[t], "ui", "walk")
    /\ WalkContinues(Top(th[t]))
    /\ StepC(t, V2WalkStep(th[t], cache))

V2WalkEnd(t) ==
    /\ IsV2(t) /\ Waiting(th[t]) /\ At(th[t], "ui", "walk")
    /\ ~WalkContinues(Top(th[t]))
    /\ Step(t, SetTop(th[t], [Top(th[t]) EXCEPT !.pc = "overrides"]))

V2Overrides(t) ==
    /\ IsV2(t) /\ Waiting(th[t]) /\ At(th[t], "ui", "overrides")
    /\ Step(t, V2CollectOverrides(th[t]))

V2Installing(t) ==
    /\ IsV2(t) /\ Waiting(th[t]) /\ At(th[t], "ui", "install")
    /\ Step(t, V2Install(th[t]))

V2ChildrenEnd(t) ==
    /\ IsV2(t) /\ Returned(th[t]) /\ At(th[t], "ui", "children")
    /\ Step(t, V2ChildrenFinished(th[t]))

V2BodyEnd(t) ==
    /\ IsV2(t) /\ Returned(th[t]) /\ At(th[t], "ui", "body")
    /\ Step(t, V2BodyFinished(th[t]))

V2Restoring(t) ==
    /\ IsV2(t) /\ Waiting(th[t]) /\ At(th[t], "ui", "restore")
    /\ Step(t, V2Restore(th[t]))

V2BlockStart(t) ==
    /\ IsV2(t) /\ Waiting(th[t]) /\ At(th[t], "block", "start")
    /\ Step(t, V2BlockRender(th[t]))

V2BlockFallbackEnd(t) ==
    /\ IsV2(t) /\ Returned(th[t]) /\ At(th[t], "block", "fallback")
    /\ Step(t, V2BlockFallbackFinished(th[t]))

V2BlockEnd(t) ==
    /\ IsV2(t) /\ Returned(th[t]) /\ At(th[t], "block", "top")
    /\ Step(t, V2BlockFinished(th[t]))

V2Define(t) ==
    /\ IsV2(t) /\ Waiting(th[t]) /\ At(th[t], "component", "start")
    /\ Step(t, V2ComponentDefine(th[t]))

NextV2 ==
    \E t \in Threads :
        \/ PageNextV2(t) \/ PageCollect(t) \/ V2Define(t)
        \/ NLText(t) \/ NLVar(t) \/ NLBlockSuperString(t) \/ NLBlockSuper(t)
        \/ NLRaise(t) \/ NLCall(t) \/ NLResume(t) \/ NLDone(t)
        \/ SuperEnd(t) \/ IfStart(t) \/ IfEnd(t)
        \/ V2Resolve(t) \/ V2Props(t) \/ V2Lookup(t) \/ V2Walk(t) \/ V2WalkEnd(t)
        \/ V2Overrides(t) \/ V2Installing(t) \/ V2ChildrenEnd(t) \/ V2BodyEnd(t)
        \/ V2Restoring(t)
        \/ V2BlockStart(t) \/ V2BlockFallbackEnd(t) \/ V2BlockEnd(t)

SpecV2 == InitV2 /\ [][NextV2]_vars

(***************************************************************************)
(* Properties of palette.py's invocation (specification Spec)              *)
(***************************************************************************)
RegistryOf(ctx) == ctx.rc.PALETTE_COMPONENTS

\* the component body holds an invocation of its own
HasNestedInvocation(body) ==
    body # NONE /\ \E j \in 1..Len(Nodes[body].nodelist) :
                      Nodes[Nodes[body].nodelist[j]].kind = "ui"

\* every entry of r0 is an entry of r1, with the same nodelist
RegistryKept(r0, r1) ==
    \A k \in Idents : \A c \in CompNames : r0.m[k][c] # NONE => r1.m[k][c] = r0.m[k][c]

\* the same invocation node rendered twice in a row gives the same output twice
SiblingsAgree(page) ==
    \A j \in 1..(Len(page) - 1) :
        (page[j].n = page[j + 1].n /\ Nodes[page[j].n].kind = "ui")
            => (page[j].st = page[j + 1].st /\ page[j].out = page[j + 1].out)

C2_RestoreUnconditional ==
    \A t \in Threads :
        (th[t].last.k = "ui_exit" /\ th[t].last.pushed)
            => /\ th[t].last.outcome \in {"ok", "error"}
               /\ Len(th[t].last.exit.dicts) = Len(th[t].last.entry.dicts)
               /\ InstalledOverrides(th[t].last.exit.rc)
                    = InstalledOverrides(th[t].last.entry.rc)

\* the body of "boom" raised while the overrides of the enclosing invocation of
\* "wrap" were the installed ones
C2_Witness ==
    \E t \in Threads :
        /\ th[t].last.k = "ui_exit" /\ th[t].last.n = "u_inboom" /\ th[t].last.pushed
        /\ th[t].last.outcome = "error"
        /\ InstalledOverrides(th[t].last.entry.rc)["header"] = "o_whdr"
        /\ Len(th[t].last.entry.dicts) = 2

ExactEntry(r, tpl, comp) == RegGet(r, tpl, comp)
CanonicalEntry(r, tpl, comp) == RegGet(r, TemplateObjName(tpl), comp)
SameFileKeys(r, tpl, comp) ==
    { j \in 1..Len(r.keys) :
        basename(r.keys[j]) = basename(tpl) /\ RegGet(r, r.keys[j], comp) # NONE }
DefinitionsAmong(all, comp) ==
    { all[j] : j \in { k \in 1..Len(all) : /\ Nodes[all[k]].kind = "component"
                                           /\ Nodes[all[k]].comp = comp } }
DefinitionsIn(tpl, comp) ==
    DefinitionsAmong(iter_nodelist_recursive("palette", RootNodelist(tpl)), comp)
SetMin(S) == CHOOSE x \in S : \A y \in S : x <= y

\* the invocation got as far as the lookup
LookedUp(e) == e.k = "ui_exit" /\ e.tpl \in Idents /\ Loads(e.tpl)

AllStrategiesFail(r, tpl, comp) ==
    /\ ExactEntry(r, tpl, comp) = NONE
    /\ CanonicalEntry(r, tpl, comp) = NONE
    /\ SameFileKeys(r, tpl, comp) = {}
    /\ DefinitionsIn(tpl, comp) = {}

\* C9: when all four lookup strategies fail for the requested template and
\* component name, the invocation returns the component-not-found diagnostic; it
\* does not raise and no variable scope is pushed for it.
C9_MissingComponent ==
    \A t \in Threads :
        (LookedUp(th[t].last)
            /\ AllStrategiesFail(RegistryOf(th[t].last.entry), th[t].last.tpl,
                                 th[t].last.comp))
          => /\ th[t].last.out = <<ERR_NOTFOUND>>
             /\ ~th[t].last.raised
             /\ ~th[t].last.pushed
             /\ th[t].last.exit.dicts = th[t].last.entry.dicts

\* "nope" is looked up in a template that loads, after other components of that
\* template were registered
C9_Witness ==
    \E t \in Threads :
        /\ LookedUp(th[t].last) /\ th[t].last.n = "u_nocomp"
        /\ AllStrategiesFail(RegistryOf(th[t].last.entry), th[t].last.tpl,
                             th[t].last.comp)
        /\ RegistryOf(th[t].last.entry).keys # <<>>
        /\ th[t].ret = [st |-> "val", out |-> <<ERR_NOTFOUND>>]

\* what the lookup must give for the registry r it started with
LookupAgrees(e, r) ==
    IF ExactEntry(r, e.tpl, e.comp) # NONE
    THEN e.by = 1 /\ e.body = ExactEntry(r, e.tpl, e.comp) /\ e.looked.m = r.m
    ELSE IF CanonicalEntry(r, e.tpl, e.comp) # NONE
    THEN e.by = 2 /\ e.body = CanonicalEntry(r, e.tpl, e.comp) /\ e.looked.m = r.m
    ELSE IF SameFileKeys(r, e.tpl, e.comp) # {}
    THEN /\ e.by = 3 /\ e.looked.m = r.m
         /\ e.body = RegGet(r, r.keys[SetMin(SameFileKeys(r, e.tpl, e.comp))], e.comp)
    ELSE IF DefinitionsIn(e.tpl, e.comp) # {}
    THEN /\ e.by = 4 /\ e.body \in DefinitionsIn(e.tpl, e.comp)
         /\ e.looked.m = [r.m EXCEPT ![e.tpl][e.comp] = e.body]
    ELSE e.by = 0 /\ e.body = NONE /\ e.looked.m = r.m

\* C10: the lookup tries (1) the exact identity, (2) the canonical identity of the
\* loader, (3) the registered identities of the same filename, (4) the re-index, in
\* that order; the body is the one the earliest succeeding strategy finds, and the
\* re-index (which registers what it finds) runs only if the first three found
\* nothing.  An exact entry, when there is one, is the result.
C10_LookupOrder ==
    \A t \in Threads :
        LookedUp(th[t].last) => LookupAgrees(th[t].last, RegistryOf(th[t].last.entry))

\* the exact identity wins although another identity of the same filename was
\* registered before it with another body
C10_Witness ==
    \E t \in Threads :
        /\ LookedUp(th[t].last) /\ th[t].last.by = 1
        /\ \E j \in SameFileKeys(RegistryOf(th[t].last.entry), th[t].last.tpl,
                                 th[t].last.comp) :
              /\ RegistryOf(th[t].last.entry).keys[j] # th[t].last.tpl
              /\ RegGet(RegistryOf(th[t].last.entry),
                        RegistryOf(th[t].last.entry).keys[j], th[t].last.comp)
                   # th[t].last.body
              /\ j = 1

(***************************************************************************)
(* Properties of palette_v2.py's block stacks (specification SpecV2)       *)
(***************************************************************************)
\* the text a nodelist of text nodes renders
RECURSIVE TextOf(_)
TextOf(nl) == IF nl = <<>> THEN <<>> ELSE <<Nodes[Head(nl)].txt>> \o TextOf(Tail(nl))

TextOnly(nl) == \A j \in 1..Len(nl) : Nodes[nl[j]].kind = "text"

\* an override body of text and {{ block.super }}, with base as the previous content
RECURSIVE OverrideText(_, _)
OverrideText(nl, base) ==
    IF nl = <<>> THEN <<>>
    ELSE (IF Nodes[Head(nl)].kind = "text" THEN <<Nodes[Head(nl)].txt>> ELSE base)
         \o OverrideText(Tail(nl), base)

SimpleOverride(nl) ==
    /\ \A j \in 1..Len(nl) :
          \/ Nodes[nl[j]].kind = "text"
          \/ Nodes[nl[j]].kind = "var" /\ Nodes[nl[j]].name = "block.super"
    /\ Cardinality({ j \in 1..Len(nl) : Nodes[nl[j]].kind = "var" }) <= 1

\* the override the invocation of a block event declared for the block
DeclaredOverride(b) == b.ov[Nodes[b.n].name]

\* C4: a block for which the invocation declares an override renders the override
\* body instead of its default body, and a request for the previous content in the
\* override body is replaced by the text of the block's default body, once.
C4_OverrideReplacesDefault ==
    \A t \in Threads :
        (th[t].lastb.k = "block_exit" /\ th[t].lastb.inv # NONE
            /\ DeclaredOverride(th[t].lastb) # NONE
            /\ TextOnly(Nodes[th[t].lastb.n].nodelist)
            /\ SimpleOverride(Nodes[DeclaredOverride(th[t].lastb)].nodelist))
          => /\ th[t].lastb.st = "val"
             /\ th[t].lastb.out =
                   OverrideText(Nodes[DeclaredOverride(th[t].lastb)].nodelist,
                                TextOf(Nodes[th[t].lastb.n].nodelist))

\* C5: invoked with no overrides, every block that is reached renders exactly its
\* own default body.
C5_DefaultWithoutOverrides ==
    \A t \in Threads :
        (th[t].lastb.k = "block_exit" /\ th[t].lastb.inv # NONE
            /\ th[t].lastb.ov = NoOverrides
            /\ TextOnly(Nodes[th[t].lastb.n].nodelist))
          => /\ th[t].lastb.st = "val"
             /\ th[t].lastb.out = TextOf(Nodes[th[t].lastb.n].nodelist)

\* the invocation frames whose effective stacks are built
Built(f) == f.k = "ui" /\ f.pc \in {"install", "children", "body", "restore"}

\* C6: in the effective stack of an invocation, for every block name the caller
\* overrides, the caller's override is at index 0 and the template-defined bodies
\* follow in the order the chain walk gave them; a block the caller overrides
\* renders the caller's override.
C6_CallerOverrideFirst ==
    \A t \in Threads :
        /\ \A j \in 1..Len(th[t].stack) :
              Built(th[t].stack[j]) =>
                \A b \in BlockNames :
                    /\ th[t].stack[j].merged[b] =
                          IF th[t].stack[j].ov[b] # NONE
                          THEN <<th[t].stack[j].ov[b]>> \o th[t].stack[j].walked[b]
                          ELSE th[t].stack[j].walked[b]
                    /\ \A k \in 1..Len(th[t].stack[j].walked[b]) :
                          Nodes[th[t].stack[j].walked[b][k]].kind = "block"
        /\ (th[t].lastb.k = "block_exit" /\ th[t].lastb.inv # NONE
                /\ DeclaredOverride(th[t].lastb) # NONE)
             => th[t].lastb.top = DeclaredOverride(th[t].lastb)

\* an override of "x" in front of the three bodies of the chain A -> B -> C
C6_Witness ==
    \E t \in Threads : \E j \in 1..Len(th[t].stack) :
        /\ Built(th[t].stack[j]) /\ th[t].stack[j].n = "uA_ov"
        /\ th[t].stack[j].merged["x"] = <<"o_x", "bA_x", "bB_x", "bC_x">>
        /\ th[t].lastb.inv = "uA_ov" /\ th[t].lastb.top = "o_x"

\* the stacks the chain walk has built so far
WalkResult(f) == IF f.pc \in {"walk", "overrides"} THEN f.merged ELSE f.walked
Walked(f) == f.k = "ui" /\ f.pc \in {"overrides", "install", "children", "body", "restore"}

\* C7: for the chain A -> B -> C, each template defining the component with a block
\* "x", the merged stack of "x" is [A.x, B.x, C.x] (and [B.x, C.x] from B), and the
\* component invoked from A without an override renders A.x.
C7_ChainOrder ==
    \A t \in Threads :
        /\ \A j \in 1..Len(th[t].stack) :
              (Walked(th[t].stack[j]) /\ th[t].stack[j].comp = "panel")
                => /\ th[t].stack[j].tpl = TA
                        => WalkResult(th[t].stack[j])["x"] = <<"bA_x", "bB_x", "bC_x">>
                   /\ th[t].stack[j].tpl = TB
                        => WalkResult(th[t].stack[j])["x"] = <<"bB_x", "bC_x">>
        /\ (th[t].lastb.k = "block_exit" /\ th[t].lastb.inv = "uA")
             => /\ th[t].lastb.n = "bA_x" /\ th[t].lastb.top = "bA_x"
                /\ th[t].lastb.out = <<"A.x">>
        /\ \A j \in 1..Len(th[t].page) :
              th[t].page[j].n = "uA" => th[t].page[j].out = <<"A.x">>

C7_Witness ==
    \E t \in Threads : \E j \in 1..Len(th[t].stack) :
        /\ th[t].stack[j].n = "uA" /\ Walked(th[t].stack[j])
        /\ th[t].stack[j].visited = <<TA, TB, TC>>
        /\ th[t].stack[j].merged["x"] = <<"bA_x", "bB_x", "bC_x">>
        /\ th[t].lastb.inv = "uA" /\ th[t].lastb.out = <<"A.x">>

NoDup(seq) == \A i, j \in 1..Len(seq) : i # j => seq[i] # seq[j]

\* the stacks a walk over the templates of v builds when each is merged once
RECURSIVE FoldChain(_, _, _)
FoldChain(v, comp, acc) ==
    IF v = <<>> THEN acc
    ELSE FoldChain(Tail(v), comp,
                   IF Loads(Head(v))
                   THEN MergeComponent(acc, IndexOf(Head(v)).components[comp])
                   ELSE acc)

InWalk(f) == f.k = "ui" /\ (f.pc = "walk" \/ Walked(f))

\* C8: the parent-chain walk visits each template identity at most once (so it takes
\* at most as many steps as there are identities, whatever the extends graph), the
\* blocks of each visited template are in the stacks exactly once, and an invocation
\* whose walk stopped at a repeated identity completes without an error.
C8_WalkTerminates ==
    \A t \in Threads :
        /\ \A j \in 1..Len(th[t].stack) :
              InWalk(th[t].stack[j]) =>
                /\ NoDup(th[t].stack[j].visited)
                /\ Len(th[t].stack[j].visited) <= Cardinality(Idents)
                /\ \A b \in BlockNames : NoDup(WalkResult(th[t].stack[j])[b])
                /\ WalkResult(th[t].stack[j])
                     = FoldChain(th[t].stack[j].visited, th[t].stack[j].comp, NoBlockCtx)
        /\ (th[t].last.k = "ui_exit" /\ th[t].last.current # NONE
                /\ InSeq(th[t].last.visited, th[t].last.current))
             => th[t].last.outcome = "ok" /\ ~th[t].last.raised

\* the walk of the cycle cyc1 -> cyc2 -> cyc1 has stopped at the repeat, and the
\* invocation has completed
C8_Witness ==
    \E t \in Threads :
        /\ th[t].last.k = "ui_exit" /\ th[t].last.n = "uCyc"
        /\ th[t].last.visited = <<TCYC1, TCYC2>> /\ th[t].last.current = TCYC1
        /\ th[t].last.outcome = "ok"
        /\ th[t].ret.st = "val" /\ th[t].ret.out # <<>>


(***************************************************************************)
(* Isolation of invocations from one another (specification Spec)          *)
(***************************************************************************)
\* the frame of the innermost invocation that installed its overrides on Context c
\* and has not yet restored them, 0 if there is none
RECURSIVE InnermostScoped(_, _, _)
InnermostScoped(stack, j, c) ==
    IF j = 0 THEN 0
    ELSE IF stack[j].k = "ui" /\ stack[j].pushed /\ stack[j].c = c THEN j
    ELSE InnermostScoped(stack, j - 1, c)

\* the overrides a block rendered on Context c finds installed are those of frame j
InstalledAreOf(s, c, j) ==
    InstalledOverrides(s.ctxs[c].rc) = IF j = 0 THEN NoOverrides ELSE s.stack[j].ov

InvocationIds == { x \in NodeIds : Nodes[x].kind = "ui" }

\* the overrides declared in the inline body of each invocation node
Declared == [x \in InvocationIds |-> collect_overrides("palette", Nodes[x].nodelist)]

DeclaredFor(x) == { Declared[x][b] : b \in BlockNames } \ {NONE}

\* invocation a is written inside the inline body of invocation b
WrittenInside(a, b) ==
    \E k \in 1..Len(iter_nodelist_recursive("palette", Nodes[b].nodelist)) :
        iter_nodelist_recursive("palette", Nodes[b].nodelist)[k] = a

\* the invocations that are siblings of x or related to it through a component
\* body: all but those written in its inline body or holding it in theirs
Apart(x) ==
    { y \in InvocationIds \ {x} : ~WrittenInside(x, y) /\ ~WrittenInside(y, x) }

\* C11: invocations never observe each other's overrides.  At every moment the
\* overrides installed on a Context are exactly those of the innermost invocation
\* whose body is being rendered on it, and none when there is no such invocation:
\* so a sibling starts from nothing, an invocation made inside a component body
\* sees only its own, and once it has finished the enclosing invocation's are the
\* installed ones again.  Every block renders its own content or the override that
\* the invocation it is rendered for declared for it, never an override declared
\* for a sibling invocation or for one it is related to through a component body.
C11_InvocationsIsolated ==
    \A t \in Threads :
        /\ \A c \in 1..Len(th[t].ctxs) :
              InstalledAreOf(th[t], c, InnermostScoped(th[t].stack, Len(th[t].stack), c))
        /\ th[t].lastb.k = "block_exit"
             => /\ th[t].lastb.top # th[t].lastb.n
                     => /\ th[t].lastb.inv # NONE
                        /\ th[t].lastb.top \in DeclaredFor(th[t].lastb.inv)
                /\ th[t].lastb.inv # NONE
                     => \A x \in Apart(th[t].lastb.inv) :
                           th[t].lastb.top \notin DeclaredFor(x)

\* "outer" was invoked with an override of "header" and its body invoked "card"
\* with another one: "card" rendered its own, "outer" rendered its own after
\* "card" had finished; now the sibling invocation of "card", which declares none,
\* has rendered the default content of its "header" block
C11_Witness ==
    \E t \in Threads :
        /\ Len(th[t].page) = 1 /\ th[t].page[1].n = "u_outer"
        /\ th[t].page[1].out
             = <<"<outer>", "<card>", "Inner:", "Untitled", "T0", "</card>", "XHdr">>
        /\ th[t].cur = "u_plain"
        /\ th[t].lastb.k = "block_exit" /\ th[t].lastb.n = "b_hdr"
        /\ th[t].lastb.inv = "u_plain" /\ th[t].lastb.top = "b_hdr"
        /\ th[t].lastb.out = <<"Untitled">>


(***************************************************************************)
(* Properties and the caller's variables (specification Spec)              *)
(***************************************************************************)
\* the body of the invocation of frame j is being rendered, and no invocation made
\* inside it has its own scope on the Context at the moment
InBody(s, j) ==
    /\ s.stack[j].k = "ui" /\ s.stack[j].pc = "body"
    /\ j = InnermostScoped(s.stack, Len(s.stack), s.stack[j].c)

\* what the body of the invocation of frame j reads under the name v
Seen(s, j, v) == Lookup(s.ctxs[s.stack[j].c], v)

PropNames(n) == { Nodes[n].props[i].name : i \in 1..Len(Nodes[n].props) }

\* C12: while the body of an invocation renders, every property name reads as the
\* property's resolved value, and every variable the caller has bound that is not
\* named by a property reads as the caller's value.
C12_PropertiesLayered ==
    \A t \in Threads : \A j \in 1..Len(th[t].stack) :
        InBody(th[t], j)
          => \A v \in VarNames :
                IF v \in PropNames(th[t].stack[j].n)
                THEN Seen(th[t], j, v) = th[t].stack[j].lv[v]
                ELSE Lookup(th[t].stack[j].entry, v) # Unbound
                        => Seen(th[t], j, v) = Lookup(th[t].stack[j].entry, v)


\* the variables a caller can see, name by name
Visible(ctx) == Flatten(ctx)

\* C13: nothing leaks into the caller's variables.  When the render of a component
\* returns, be it an invocation or the rendering of the component's definition, the
\* caller's Context has the layers it had before, and every variable name reads as
\* it did before (no property, no variable set by the body and no name bound by the
\* renderer is left).
C13_NothingLeaks ==
    \A t \in Threads :
        th[t].last.k \in {"ui_exit", "component_exit"}
          => /\ Len(th[t].last.exit.dicts) = Len(th[t].last.entry.dicts)
             /\ Visible(th[t].last.exit) = Visible(th[t].last.entry)


\* the declaration of the property named v on invocation node n
PropNamed(n, v) ==
    Nodes[n].props[CHOOSE i \in 1..Len(Nodes[n].props) : Nodes[n].props[i].name = v]

\* what the declaration p stands for, for a caller whose Context is ctx: the literal
\* itself, or the expression evaluated on ctx
ValueFor(p, ctx) == IF p.type = "expression" THEN Resolve(ctx, p.v) ELSE Str(p.v)

Evaluates(p, ctx) == p.type = "expression" => Resolves(ctx, p.v)

\* C14: in the component body a literal property reads as the literal, and an
\* expression property reads as the value its expression had on the caller's
\* Context when the invocation was made (the other properties of the invocation are
\* not part of that Context); this stays so for as long as the body renders.
C14_PropertyValues ==
    \A t \in Threads : \A j \in 1..Len(th[t].stack) :
        InBody(th[t], j)
          => \A v \in PropNames(th[t].stack[j].n) :
                Evaluates(PropNamed(th[t].stack[j].n, v), th[t].stack[j].entry)
                  => Seen(th[t], j, v)
                       = ValueFor(PropNamed(th[t].stack[j].n, v), th[t].stack[j].entry)


\* some property of invocation node n fails to resolve on ctx
HasFailingProperty(n, ctx) ==
    \E v \in PropNames(n) : ~Evaluates(PropNamed(n, v), ctx)

\* the properties of the invocation of frame f have been resolved
PropsResolved(f) == f.k = "ui" /\ f.pc \in {"collect", "scoped", "body", "restore"}

\* what the resolution must give for property v of node n on ctx
ResolvedAs(n, v, ctx) ==
    IF Evaluates(PropNamed(n, v), ctx) THEN ValueFor(PropNamed(n, v), ctx) ELSE NoneV

\* C15: when the resolution of a property fails, that property is bound to None,
\* every other declared property is resolved and bound to its own value, and the
\* invocation goes on: the body is rendered with these bindings and the invocation
\* returns without raising.
C15_FailingPropertyIsolated ==
    \A t \in Threads :
        /\ \A j \in 1..Len(th[t].stack) :
              (PropsResolved(th[t].stack[j])
                  /\ HasFailingProperty(th[t].stack[j].n, th[t].stack[j].entry))
                => \A v \in PropNames(th[t].stack[j].n) :
                      /\ th[t].stack[j].lv[v]
                           = ResolvedAs(th[t].stack[j].n, v, th[t].stack[j].entry)
                      /\ InBody(th[t], j) => Seen(th[t], j, v) = th[t].stack[j].lv[v]
        /\ (th[t].last.k = "ui_exit" /\ th[t].last.body # NONE
                /\ HasFailingProperty(th[t].last.n, th[t].last.entry))
             => th[t].last.pushed /\ ~th[t].last.raised /\ th[t].last.outcome = "ok"

\* title=compvar fails to resolve, flag="on" follows it: the body of "show" has
\* rendered None for title and "on" for flag
C15_Witness ==
    \E t \in Threads :
        /\ th[t].last.k = "ui_exit" /\ th[t].last.n = "u_fault"
        /\ HasFailingProperty("u_fault", th[t].last.entry)
        /\ th[t].last.pushed /\ th[t].last.outcome = "ok"
        /\ th[t].ret = [st |-> "val", out |-> <<"None", "on", "ui/card.html", "show">>]


(***************************************************************************)
(* Failures that end in a placeholder (specification Spec)                 *)
(***************************************************************************)
\* the reference x (file= or component=) gives nothing usable on ctx: an empty
\* literal, a variable that is absent, None or empty, or one whose resolution raises
Unusable(x, ctx) ==
    IF x.lit THEN x.v = ""
    ELSE \/ Lookup(ctx, x.v).t \in {"unbound", "none", "faulty"}
         \/ Lookup(ctx, x.v) = EmptyStr

\* C16: when the file reference or the component reference of an invocation
\* resolves to nothing usable, the invocation returns the reference diagnostic at
\* once: it does not raise, and it has touched neither the caller's variables nor
\* the render-scoped state (no registry created, no template loaded, no scope
\* pushed).
C16_BadReferencePlaceholder ==
    \A t \in Threads :
        (th[t].last.k = "ui_exit"
            /\ (\/ Unusable(Nodes[th[t].last.n].fileX, th[t].last.entry)
                \/ Unusable(Nodes[th[t].last.n].compX, th[t].last.entry)))
          => /\ th[t].last.out = <<ERR_REF>> /\ ~th[t].last.raised
             /\ th[t].last.outcome = "placeholder" /\ ~th[t].last.pushed
             /\ th[t].last.body = NONE
             /\ th[t].last.exit = th[t].last.entry

\* file=tplvar resolves to a template that loads, component=compvar raises while
\* being resolved
C16_Witness ==
    \E t \in Threads :
        /\ th[t].last.k = "ui_exit" /\ th[t].last.n = "u_var"
        /\ Lookup(th[t].last.entry, "tplvar") = Str(TCARD)
        /\ Lookup(th[t].last.entry, "compvar") = Faulty
        /\ th[t].ret = [st |-> "val", out |-> <<ERR_REF>>]


(***************************************************************************)
(* Templates that do not load (specification SpecV2)                       *)
(***************************************************************************)
\* the chain walk of the invocation came upon a template that does not load
MetUnloadable(visited) == \E i \in 1..Len(visited) : ~Loads(visited[i])

\* C17: a template that cannot be loaded never crashes the caller.  The indexer
\* reports the failure (and caches nothing for that identity); an invocation whose
\* own template does not load returns the template diagnostic without raising; an
\* invocation whose chain of parents reaches a template that does not load ends
\* its walk there and renders what it has collected.
C17_LoadFailureTolerated ==
    /\ \A name \in Idents :
          (~Loads(name) /\ ~InCache(cache, name))
            => /\ ~index_template_components(cache, name).ok
               /\ index_template_components(cache, name).cache = cache
    /\ \A t \in Threads :
          /\ (th[t].last.k = "ui_exit" /\ th[t].last.tpl \in Idents
                  /\ ~Loads(th[t].last.tpl))
               => /\ th[t].last.out = <<ERR_TEMPLATE>> /\ ~th[t].last.raised
                  /\ th[t].last.outcome = "placeholder" /\ ~th[t].last.pushed
          /\ (th[t].last.k = "ui_exit" /\ MetUnloadable(th[t].last.visited))
               => /\ ~th[t].last.raised /\ th[t].last.pushed
                  /\ th[t].last.current = NONE
                  /\ ~Loads(th[t].last.visited[Len(th[t].last.visited)])
          /\ \A n \in 1..Len(cache) : Loads(cache[n])

\* the page invoked a component of a template that does not load and got the
\* diagnostic, then a component whose template extends one that does not load:
\* that one rendered its own block
C17_Witness ==
    \E t \in Threads :
        /\ Len(th[t].page) = 1 /\ th[t].page[1].n = "u_notpl"
        /\ th[t].page[1].st = "val" /\ th[t].page[1].out = <<ERR_TEMPLATE>>
        /\ th[t].last.k = "ui_exit" /\ th[t].last.n = "uOrph"
        /\ th[t].last.visited = <<TORPH, TMISS>>
        /\ th[t].ret = [st |-> "val", out |-> <<"orphan.x">>]


(***************************************************************************)
(* Concurrent renders with the palette.py tags (specification SpecPar)     *)
(***************************************************************************)
MaxParTop == 1    \* top-level nodes of each of the concurrent pages

Pair == {1, 2}

\* what each of the two pages may hold: an invocation without overrides and one
\* whose body raises; an invocation whose body invokes another component (both with
\* overrides) and the invocation without overrides
ParPool(t) == IF t = 1 THEN {"u_plain", "u_boom"} ELSE {"u_outer", "u_plain"}

\* both pages are rendered with the same variables, each on a Context of its own
ParAmbient == [EmptyLayer EXCEPT !["title"] = Str("T0"), !["compvar"] = Str("card")]

InitPar ==
    /\ th = [t \in Pair |->
                NewThread("palette", ParAmbient, Page(ParPool(t), MaxParTop))]
    /\ cache = <<>>

\* the host runs the renders in parallel: any step of any of them comes next
NextPar ==
    \E t \in Threads :
        \/ PageNext(t) \/ PageCollect(t)
        \/ NLText(t) \/ NLVar(t) \/ NLBlockSuperString(t) \/ NLRaise(t)
        \/ NLCall(t) \/ NLResume(t) \/ NLDone(t)
        \/ UIResolve(t) \/ UILoad(t) \/ UILookup(t) \/ UIProps(t) \/ UICollect(t)
        \/ UIScoped(t) \/ UIBodyEnd(t) \/ UIRestoring(t)
        \/ BlockStart(t) \/ BlockBaseEnd(t) \/ BlockOverrideEnd(t)

SpecPar == InitPar /\ [][NextPar]_vars

(***************************************************************************)
(* The same render run alone, from its first step to its last              *)
(***************************************************************************)
\* NodeList.render at its current position
NodelistStep(s) ==
    IF Returned(s) THEN NodelistResume(s)
    ELSE IF ~HasNode(s) THEN NodelistDone(s)
    ELSE CASE CurNode(s).kind \in {"text", "override", "extends"} -> RenderText(s)
           [] CurNode(s).kind = "raise" -> Throw(s)
           [] CurNode(s).kind = "var" /\ CurNode(s).name # "block.super" -> RenderVar(s)
           [] CurNode(s).kind = "var" /\ CurNode(s).name = "block.super"
                -> RenderBlockSuperString(s)
           [] OTHER -> SetTop(CallNode(s),
                              [Top(CallNode(s)) EXCEPT
                                 !.pc = IF Top(CallNode(s)).k = "ui"
                                        THEN "resolve" ELSE "start"])

\* PaletteUINode.render at its current stage
InvocationStep(s) ==
    CASE Top(s).pc = "resolve" -> UIResolveReferences(s)
      [] Top(s).pc = "load"    -> UILoadTemplate(s)
      [] Top(s).pc = "lookup"  -> UILookUpComponent(s)
      [] Top(s).pc = "props"   -> UIResolveProperties(s)
      [] Top(s).pc = "collect" -> UICollectOverrides(s)
      [] Top(s).pc = "scoped"  -> UIScopedRendering(s)
      [] Top(s).pc = "body"    -> UIBodyFinished(s)
      [] OTHER                 -> UIRestore(s)

\* PaletteBlockNode.render at its current stage
BlockStep(s) ==
    CASE Top(s).pc = "start" -> BlockRenderBase(s)
      [] Top(s).pc = "base"  -> BlockBaseFinished(s)
      [] OTHER               -> BlockOverrideFinished(s)

ComponentStep(s) ==
    IF Top(s).pc = "start" THEN ComponentRegisterAndRender(s) ELSE ComponentFinished(s)

\* the next step of a render that nothing interrupts
StepOf(s) ==
    CASE Top(s).k = "nodelist" -> NodelistStep(s)
      [] Top(s).k = "ui"       -> InvocationStep(s)
      [] Top(s).k = "block"    -> BlockStep(s)
      [] OTHER                 -> ComponentStep(s)

\* a top-level node rendered from start to return
RECURSIVE RunNode(_)
RunNode(s) == IF Running(s) THEN RunNode(StepOf(s)) ELSE s

StartNode(s, n) ==
    PushF([s EXCEPT !.cur = n],
          [Frame(Nodes[n].kind, n, 1) EXCEPT
             !.pc = IF Nodes[n].kind = "ui" THEN "resolve" ELSE "start"])

Collect(s) ==
    [s EXCEPT !.page = Append(@, [n |-> s.cur, st |-> s.ret.st, out |-> s.ret.out]),
              !.crashed = (s.ret.st = "exc"),
              !.ret = NoRet]

\* the page whose top-level nodes are `nodes`, rendered alone from state s
RECURSIVE RunPage(_, _)
RunPage(s, nodes) ==
    IF nodes = <<>> THEN s
    ELSE RunPage(Collect(RunNode(StartNode(s, Head(nodes)))), Tail(nodes))

NodesOf(page) == [j \in 1..Len(page) |-> page[j].n]

\* the state the render of thread state s has when it renders the same nodes with
\* the same variables and no other render exists
Alone(s) ==
    RunPage(NewThread(s.engine, s.amb, Page(s.pool, s.max)), NodesOf(s.page))

\* the render is between two top-level nodes, or has finished
Idle(s) == ~Running(s) /\ s.ret.st = "none"

\* C18: concurrent renders on distinct Contexts own their registry and override
\* state.  In every interleaving of the steps of two renders, whenever a render has
\* finished a top-level node its whole state (the output of every node so far, its
\* registry, its installed overrides, the strategy each lookup succeeded by and the
\* registry each lookup found) is the state it has when it renders the same nodes
\* alone; and at every moment the overrides installed on a Context are those of the
\* innermost invocation of the render that owns the Context.
C18_ConcurrentRendersIndependent ==
    \A t \in Threads :
        /\ Idle(th[t]) => th[t] = Alone(th[t])
        /\ \A c \in 1..Len(th[t].ctxs) :
              InstalledAreOf(th[t], c, InnermostScoped(th[t].stack, Len(th[t].stack), c))

\* render 1 has finished "card", found by the re-index and registered by that
\* lookup, while render 2, which had registered "outer" and "card" before render 1
\* looked "card" up, is rendering the body of "card" inside "outer" with the
\* override of its nested invocation installed
C18_Witness ==
    /\ DOMAIN th = Pair
    /\ Idle(th[1]) /\ Len(th[1].page) = 1 /\ th[1].page[1].n = "u_plain"
    /\ th[1].last.by = 4
    /\ RegistryOf(th[1].ctxs[1]).m[TCARD]["outer"] = NONE
    /\ Running(th[2]) /\ th[2].cur = "u_outer"
    /\ RegistryOf(th[2].ctxs[1]).m[TCARD]["card"] = "d_card"
    /\ InstalledOverrides(th[2].ctxs[1].rc)["header"] = "o_in_hdr"


(***************************************************************************)
(* The index cache over the life of a process (specification SpecCache)    *)
(***************************************************************************)
MaxOthers == 256    \* numbered templates indexed between two clears

\* the template whose entry is watched
Watched == TCARD

\* a collaborator calling the indexer: how many numbered templates it has indexed
\* and whether it has indexed the watched one since the cache was last cleared, and
\* what its last call did
NoIndexEvent ==
    [k |-> "none", name |-> "", before |-> FALSE, ok |-> FALSE, loaded |-> FALSE,
     same |-> FALSE]

IndexerClient == [engine |-> "indexer", others |-> 0, watched |-> FALSE,
                  last |-> NoIndexEvent]

InitCache ==
    /\ th = [t \in Solo |-> IndexerClient]
    /\ cache = <<>>

\* a call _index_template_components(name) with result r; `before` says that the
\* name was indexed successfully since the cache was last cleared
IndexCall(t, name, before, loaded, r, s1) ==
    /\ cache' = r.cache
    /\ th' = [th EXCEPT ![t] =
                [s1 EXCEPT !.last = [k |-> "index", name |-> name, before |-> before,
                                     ok |-> r.ok, loaded |-> loaded,
                                     same |-> (r.idx = IndexOf(name))]]]

IndexWatched(t) ==
    /\ th[t].engine = "indexer"
    /\ IndexCall(t, Watched, th[t].watched, LoaderInvoked(cache, Watched),
                 index_template_components(cache, Watched),
                 [th[t] EXCEPT !.watched = TRUE])

IndexMissing(t) ==
    /\ th[t].engine = "indexer"
    /\ IndexCall(t, TMISS, FALSE, LoaderInvoked(cache, TMISS),
                 index_template_components(cache, TMISS), th[t])

IndexOther(t) ==
    /\ th[t].engine = "indexer"
    /\ th[t].others < MaxOthers /\ th[t].others < Len(GeneratedNames)
    /\ IndexCall(t, GeneratedNames[th[t].others + 1], FALSE,
                 LoaderInvoked(cache, GeneratedNames[th[t].others + 1]),
                 index_template_components(cache, GeneratedNames[th[t].others + 1]),
                 [th[t] EXCEPT !.others = @ + 1])

ClearCache(t) ==
    /\ th[t].engine = "indexer"
    /\ th[t].last.k # "clear"
    /\ cache' = clear_palette_cache(cache)
    /\ th' = [th EXCEPT ![t] = [IndexerClient EXCEPT !.last.k = "clear"]]

NextCache ==
    \E t \in Threads :
        IndexWatched(t) \/ IndexMissing(t) \/ IndexOther(t) \/ ClearCache(t)

SpecCache == InitCache /\ [][NextCache]_vars

\* C19: index results are cached per identity and the clear operation drops them
\* all.  An index of an identity that was indexed successfully since the last clear
\* returns the index without the loader being invoked; clearing leaves no entry;
\* and the first index of an identity after a clear invokes the loader and gives
\* the index again.
C19_CachedUntilCleared ==
    \A t \in Threads :
        /\ (th[t].last.k = "index" /\ th[t].last.before)
             => th[t].last.ok /\ th[t].last.same /\ ~th[t].last.loaded
        /\ (th[t].last.k = "index" /\ ~th[t].last.before)
             => th[t].last.loaded /\ (th[t].last.ok => th[t].last.same)
        /\ th[t].last.k = "clear" => cache = <<>>

\* C20: once an identity has been indexed successfully its entry stays in the cache
\* until the cache is cleared, however many other identities are indexed meanwhile:
\* the watched template is cached if it was indexed since the last clear, and the
\* cache holds one entry for every identity indexed since then.
C20_NoEviction ==
    \A t \in Threads :
        /\ th[t].watched => InCache(cache, Watched)
        /\ Len(cache) = th[t].others + (IF th[t].watched THEN 1 ELSE 0)


(***************************************************************************)
(* The render-the-next handle of a block stack (specification SpecV2)      *)
(***************************************************************************)
\* a frame that renders entry idx of a block stack: the block node renders index 0,
\* a {{ block.super }} request renders the index after that of the handle it used
RendersEntry(f) == (f.k = "block" /\ f.pc = "top") \/ (f.k = "super" /\ f.pc = "next")

\* the bodies of the stack hold nothing but text and {{ block.super }}
SimpleStack(stack) ==
    \A j \in 1..Len(stack) : \A k \in 1..Len(Nodes[stack[j]].nodelist) :
        \/ Nodes[Nodes[stack[j]].nodelist[k]].kind = "text"
        \/ /\ Nodes[Nodes[stack[j]].nodelist[k]].kind = "var"
           /\ Nodes[Nodes[stack[j]].nodelist[k]].name = "block.super"

\* what the nodes nl of entry i (counted from 1) must write: each request for the
\* previous content is the text of entry i + 1, nothing when i is the last entry
RECURSIVE EntryText(_, _, _)
EntryText(nl, stack, i) ==
    IF nl = <<>> THEN <<>>
    ELSE (IF Nodes[Head(nl)].kind = "text" THEN <<Nodes[Head(nl)].txt>>
          ELSE IF i + 1 > Len(stack) THEN <<>>
          ELSE EntryText(Nodes[stack[i + 1]].nodelist, stack, i + 1))
         \o EntryText(Tail(nl), stack, i)

\* C21: while the body at index i of a block stack is rendered, the handle bound
\* to `block` is the one of index i, so that its request for the next content renders
\* the body at index i + 1 with the handle of i + 1; past the last entry the request
\* gives the empty string and does not fail.  A block whose stack holds text and
\* requests only therefore writes the entries nested in stack order.
C21_NextHandle ==
    \A t \in Threads :
        /\ \A j \in 1..Len(th[t].stack) :
              RendersEntry(th[t].stack[j]) =>
                /\ th[t].stack[j].idx < Len(th[t].stack[j].stack)
                /\ th[t].stack[j].k = "super"
                     => th[t].stack[j].prevBlock
                          = BlockSuper(th[t].stack[j].stack, th[t].stack[j].idx - 1)
                /\ j < Len(th[t].stack)
                     => /\ th[t].stack[j + 1].k = "nodelist"
                        /\ th[t].stack[j + 1].nl =
                              Nodes[th[t].stack[j].stack[th[t].stack[j].idx + 1]].nodelist
                /\ j + 1 = Len(th[t].stack)
                     => Lookup(Ctx(th[t]), "block")
                          = BlockSuper(th[t].stack[j].stack, th[t].stack[j].idx)
        /\ (th[t].lastb.k = "block_exit" /\ th[t].lastb.stack # <<>>
                /\ SimpleStack(th[t].lastb.stack))
             => /\ th[t].lastb.st = "val"
                /\ th[t].lastb.out =
                      EntryText(Nodes[th[t].lastb.stack[1]].nodelist, th[t].lastb.stack, 1)

\* a stack of three entries that all ask for the next one: the override asks twice,
\* and the request made from the last entry has given nothing
C21_Witness ==
    \E t \in Threads :
        /\ th[t].lastb.k = "block_exit" /\ th[t].lastb.inv = "uS_ov"
        /\ th[t].lastb.stack = <<"o_xsup", "bS1_x", "bS2_x">>
        /\ th[t].lastb.st = "val"
        /\ th[t].lastb.out = <<"Pre:", "S1.x", "S2.x", "S1.x", "S2.x">>
        /\ Lookup(th[t].ctxs[1], "block") = Unbound


(***************************************************************************)
(* The stages of an invocation (specification Spec)                        *)
(***************************************************************************)
\* the stage an invocation frame is in; rendering the body and turning its failure
\* into a diagnostic are both ScopedRendering
StageOf(pc) ==
    CASE pc = "resolve" -> 1     \* ResolvingReferences
      [] pc = "load"    -> 2     \* LoadingTemplate
      [] pc = "lookup"  -> 3     \* LookingUpComponent
      [] pc = "props"   -> 4     \* ResolvingProperties
      [] pc = "collect" -> 5     \* CollectingOverrides
      [] pc = "scoped"  -> 6     \* ScopedRendering
      [] pc = "body"    -> 6
      [] pc = "restore" -> 7     \* Restoring

\* the invocation of frame f has returned, and e is the record of its return: from
\* Restoring with the rendering, or from one of the first three stages with a
\* diagnostic, no property resolved, no override collected and no scope pushed
ReturnedFrom(f, e) ==
    /\ e.k = "ui_exit" /\ e.n = f.n /\ ~e.raised
    /\ IF StageOf(f.pc) = 7 THEN e.outcome \in {"ok", "error"}
       ELSE /\ StageOf(f.pc) \in {1, 2, 3}
            /\ e.outcome = "placeholder"
            /\ e.out \in { <<ERR_REF>>, <<ERR_TEMPLATE>>, <<ERR_NOTFOUND>> }
            /\ e.lv = EmptyLayer /\ e.ov = NoOverrides /\ ~e.pushed

\* what has been done by the time frame f is in its stage
DoneSoFar(f) ==
    /\ StageOf(f.pc) <= 4 => f.lv = EmptyLayer
    /\ StageOf(f.pc) <= 5 => f.ov = NoOverrides
    /\ f.pushed <=> f.pc \in {"body", "restore"}

\* C22: an invocation starts in ResolvingReferences and moves from a stage only to
\* the next one, in the order ResolvingReferences, LoadingTemplate,
\* LookingUpComponent, ResolvingProperties, CollectingOverrides, ScopedRendering,
\* Restoring; it returns either from Restoring or, with a diagnostic, from one of
\* the first three stages, and then does nothing more: no property is resolved and
\* no override collected for an invocation whose template load or component lookup
\* failed.
C22_StagesInOrder ==
    [][\A t \in Threads :
         IsPalette(t) =>
           /\ \A j \in 1..Len(th[t].stack) :
                 th[t].stack[j].k = "ui" =>
                   /\ DoneSoFar(th[t].stack[j])
                   /\ IF j <= Len(th'[t].stack)
                      THEN /\ th'[t].stack[j].k = "ui"
                           /\ th'[t].stack[j].n = th[t].stack[j].n
                           /\ StageOf(th'[t].stack[j].pc)
                                \in {StageOf(th[t].stack[j].pc),
                                     StageOf(th[t].stack[j].pc) + 1}
                      ELSE /\ j = Len(th[t].stack)
                           /\ ReturnedFrom(th[t].stack[j], th'[t].last)
           /\ \A j \in (Len(th[t].stack) + 1)..Len(th'[t].stack) :
                 th'[t].stack[j].k = "ui" => th'[t].stack[j].pc = "resolve"]_vars

\* an invocation with a property and an override has returned the diagnostic of a
\* component that is not found, and another one that of a template that does not load
C22_Witness ==
    \E t \in Threads :
        /\ Len(th[t].page) = 1 /\ th[t].page[1].n = "u_gone"
        /\ th[t].page[1].out = <<ERR_NOTFOUND>>
        /\ th[t].last.k = "ui_exit" /\ th[t].last.n = "u_lost"
        /\ th[t].last.outcome = "placeholder" /\ th[t].last.out = <<ERR_TEMPLATE>>
        /\ Nodes["u_lost"].props # <<>> /\ Nodes["u_lost"].nodelist # <<>>


(***************************************************************************)
(* Lazy registration (specification Spec)                                  *)
(***************************************************************************)
\* the earlier finds by re-index, in this render, of the reference of event e
EarlierFinds(e) == { x \in e.seen : x.tpl = e.tpl /\ x.comp = e.comp }

\* C23: a component found by the re-index is registered under the identity the
\* caller used, and every later lookup of that identity and component name in the
\* same render succeeds by exact match and gives the same body.
C23_LazyRegistration ==
    \A t \in Threads :
        LookedUp(th[t].last) =>
            /\ th[t].last.by = 4
                 => RegGet(th[t].last.looked, th[t].last.tpl, th[t].last.comp)
                      = th[t].last.body
            /\ \A x \in EarlierFinds(th[t].last) :
                  th[t].last.by = 1 /\ th[t].last.body = x.body


(***************************************************************************)
(* The structural index of a template tree (specification SpecIndex)       *)
(***************************************************************************)
MaxRoot == 3    \* top-level nodes of an indexed template

\* what the root nodelist of a loaded template may hold
TreePool == {"d_card", "if_defs", "for_loop", "for_empty", "u_inl", "e_a", "e_b",
             "t_plain"}

NoIndex == [components |-> [c \in CompNames |-> NONE], parent |-> NONE]

\* a template the loader returns, then its index
Walker == [engine |-> "walker", root |-> <<>>, done |-> FALSE, idx |-> NoIndex]

InitIndex ==
    /\ th = [t \in Solo |-> Walker]
    /\ cache = <<>>

\* the template has one more top-level node
TreeGrow(t) ==
    \E n \in TreePool :
        /\ th[t].engine = "walker" /\ ~th[t].done
        /\ Len(th[t].root) < MaxRoot
        /\ th' = [th EXCEPT ![t].root = Append(@, n)]
        /\ UNCHANGED cache

\* lines 296-305 of _index_template_components on the loaded root
TreeIndex(t) ==
    /\ th[t].engine = "walker" /\ ~th[t].done
    /\ th' = [th EXCEPT ![t].done = TRUE,
                        ![t].idx = IndexFrom(iter_nodelist_recursive("palette_v2",
                                                                     th[t].root))]
    /\ UNCHANGED cache

NextIndex == \E t \in Threads : TreeGrow(t) \/ TreeIndex(t)

SpecIndex == InitIndex /\ [][NextIndex]_vars

\* every node of the tree, in document order: all the nodelists a node owns
RECURSIVE TreeNodes(_)
TreeNodes(nodelist) ==
    IF nodelist = <<>> THEN <<>>
    ELSE <<Head(nodelist)>>
         \o TreeNodes(Nodes[Head(nodelist)].nodelist
                      \o Nodes[Head(nodelist)].nodelist_false
                      \o Nodes[Head(nodelist)].nodelist_empty)
         \o TreeNodes(Tail(nodelist))

\* C24: the index holds, for every component name defined anywhere in the tree, one
\* of its definitions (and nothing for a name that is not defined), and the parent
\* of the first extends declaration of the tree; a tree without definitions and
\* without an extends declaration gives the empty map and no parent.
C24_IndexFindsAll ==
    \A t \in Threads :
        (th[t].engine = "walker" /\ th[t].done) =>
            /\ \A c \in CompNames :
                  IF DefinitionsAmong(TreeNodes(th[t].root), c) = {}
                  THEN th[t].idx.components[c] = NONE
                  ELSE th[t].idx.components[c]
                          \in DefinitionsAmong(TreeNodes(th[t].root), c)
            /\ th[t].idx.parent = FirstParent(TreeNodes(th[t].root))


(***************************************************************************)
(* palette.py: the value of a property, from the tag source to its binding  *)
(* (specification SpecProps)                                               *)
(***************************************************************************)
MaxSegs == 3    \* segments of a property value as written in the tag

\* a property value as written: quoted or not, and its text cut into segments of
\* plain text and of {{ name }} interpolations.  A {% ... %} segment cannot occur:
\* the lexer ends the palette_ui tag at the first "%}".
TextSeg(v)   == [k |-> "text", v |-> v]
InterpSeg(v) == [k |-> "interp", v |-> v]
\* (the words are names of the context too: written bare they are expressions)
Segs == {TextSeg("title"), TextSeg("flag"), InterpSeg("title"), InterpSeg("flag")}

RECURSIVE SegSeqs(_)
SegSeqs(n) ==
    IF n = 0 THEN {<<>>}
    ELSE SegSeqs(n - 1)
         \cup { Append(q, x) : q \in { r \in SegSeqs(n - 1) : Len(r) = n - 1 }, x \in Segs }

\* two text segments in a row are one text segment
Normal(segs) ==
    \A j \in 1..(Len(segs) - 1) : ~(segs[j].k = "text" /\ segs[j + 1].k = "text")

Values == { [quoted |-> q, segs |-> g] : q \in BOOLEAN,
                                         g \in { x \in SegSeqs(MaxSegs) : Normal(x) } }

\* the string tests of _parse_quoted_value on the inner text
StartsWithOpen(segs)  == segs # <<>> /\ segs[1].k = "interp"            \* startswith("{{")
EndsWithClose(segs)   == segs # <<>> /\ segs[Len(segs)].k = "interp"    \* endswith("}}")
ContainsMarkers(segs) == \E j \in 1..Len(segs) : segs[j].k = "interp"   \* "{{" in, "}}" in

\* a piece of source text handed on by the parser: the name of a variable, or text
\* kept as it was written
SrcName(v)    == [k |-> "name", v |-> v, segs |-> <<>>]
SrcText(segs) == [k |-> "text", v |-> "", segs |-> segs]

\* inner[2:-2].strip(): a variable name when the text is one interpolation
Stripped(segs) == IF Len(segs) = 1 THEN SrcName(segs[1].v) ELSE SrcText(segs)

\* a bare word is a variable reference
Bare(segs) ==
    IF Len(segs) = 1 /\ segs[1].k = "text" THEN SrcName(segs[1].v) ELSE SrcText(segs)

\* _parse_quoted_value, lines 270-340: (type, content)
parse_quoted_value(val) ==
    IF val.segs = <<>> THEN [type |-> "literal", content |-> SrcText(<<>>)]
    ELSE IF StartsWithOpen(val.segs) /\ EndsWithClose(val.segs)
    THEN [type |-> "template_expr", content |-> Stripped(val.segs)]
    ELSE IF ContainsMarkers(val.segs)
    THEN [type |-> "template_expr", content |-> SrcText(val.segs)]
    ELSE IF val.quoted THEN [type |-> "literal", content |-> SrcText(val.segs)]
    ELSE [type |-> "expression", content |-> Bare(val.segs)]

\* parser.compile_filter(content) accepts a variable name; anything left over
\* after it is a TemplateSyntaxError
Compiles(content) == content.k = "name"

\* the text of a literal
LiteralText(segs) == IF segs = <<>> THEN "" ELSE segs[1].v

SyntaxError == [type |-> "syntax_error", name |-> "", v |-> ""]

\* do_palette_ui, lines 655-665: the entry of with_vars for key=value
WithVar(key, val_type, val_content) ==
    CASE val_type = "literal" -> Prop(key, "literal", LiteralText(val_content.segs))
      [] val_type = "tag"     -> Prop(key, "tag", LiteralText(val_content.segs))
      [] OTHER -> IF Compiles(val_content) THEN Prop(key, "expression", val_content.v)
                  ELSE SyntaxError

\* a tag with one property: as written, as parsed, as bound by the render
PropSource(val, ambient) ==
    [engine |-> "props", val |-> val, ctx |-> NewContext(ambient), stage |-> "source",
     prop |-> SyntaxError, bound |-> Unbound]

InitProps ==
    /\ \E val \in Values, a \in Ambients : th = [t \in Solo |-> PropSource(val, a)]
    /\ cache = <<>>

\* the template is compiled: the tag parser runs
ParseTag(t) ==
    /\ th[t].engine = "props" /\ th[t].stage = "source"
    /\ LET p == WithVar("title", parse_quoted_value(th[t].val).type,
                        parse_quoted_value(th[t].val).content)
       IN th' = [th EXCEPT ![t].prop = p,
                           ![t].stage = IF p = SyntaxError THEN "syntax_error"
                                        ELSE "parsed"]
    /\ UNCHANGED cache

\* the tag is rendered: lines 481-501
BindProp(t) ==
    /\ th[t].engine = "props" /\ th[t].stage = "parsed"
    /\ th' = [th EXCEPT ![t].stage = "bound",
                        ![t].bound = ResolveProps(<<th[t].prop>>, th[t].ctx,
                                                  EmptyLayer)["title"]]
    /\ UNCHANGED cache

NextProps == \E t \in Threads : ParseTag(t) \/ BindProp(t)

SpecProps == InitProps /\ [][NextProps]_vars

\* what sub-rendering the segments against ctx writes
RECURSIVE SubRender(_, _)
SubRender(segs, ctx) ==
    IF segs = <<>> THEN <<>>
    ELSE (IF Head(segs).k = "text" THEN <<Head(segs).v>>
          ELSE ValueText(Resolve(ctx, Head(segs).v)))
         \o SubRender(Tail(segs), ctx)

\* the binding each kind of value must get
ExpectedBinding(val, ctx) ==
    IF ContainsMarkers(val.segs) THEN Rendered(SubRender(val.segs, ctx))
    ELSE IF val.quoted \/ val.segs = <<>> THEN Str(LiteralText(val.segs))
    ELSE Resolve(ctx, val.segs[1].v)

\* C25: a property is bound according to the kind of its value: a literal to its
\* text, an expression to its evaluation, and inline markup (a value holding
\* interpolation markers) to the result of rendering that markup against the
\* caller's context; no such value is refused.
C25_PropertyKinds ==
    \A t \in Threads :
        th[t].engine = "props" =>
            /\ th[t].stage # "syntax_error"
            /\ th[t].stage = "bound"
                 => th[t].bound = ExpectedBinding(th[t].val, th[t].ctx)


(***************************************************************************)
(* Literal and deferred references (specification Spec)                    *)
(***************************************************************************)
\* what a file= or component= argument names in the context ctx of the caller
Named(x, ctx) == IF x.lit THEN x.v ELSE NameOf(Lookup(ctx, x.v))

\* the template and the component the invocation of node n went on with, entered
\* with context entry, are the ones its arguments name there
GoesOnWith(n, entry, tpl, comp) ==
    /\ tpl  = Named(Nodes[n].fileX, entry)
    /\ comp = Named(Nodes[n].compX, entry)

MaxCalls == 2    \* calls each render makes (index lookups and clears)

\* the identities the renders index: a template extending another, its parent, and
\* one that does not load
LookupNames == {TS1, TS2, TMISS}

\* the cache of lru_cache with its values: entries [key, idx], most recently used
\* last
NoHit == [hit |-> FALSE, idx |-> IndexFrom(<<>>)]

\* a faulty probe, for comparison: any entry of the cache answers
CacheFind_AnyKey(c, key) ==
    IF c # <<>> THEN [hit |-> TRUE, idx |-> c[1].idx] ELSE NoHit

\* the probe of the wrapper: the value cached under the key
CacheFind(c, key) ==
    IF \E j \in 1..Len(c) : c[j].key = key
    THEN [hit |-> TRUE, idx |-> c[CHOOSE j \in 1..Len(c) : c[j].key = key].idx]
    ELSE NoHit

\* a hit makes the entry the most recently used
CacheUse(c, key) ==
    SelectSeq(c, LAMBDA x : x.key # key) \o SelectSeq(c, LAMBDA x : x.key = key)

\* after the call: the result is stored unless the key has been stored meanwhile;
\* the oldest entry goes when the cache is full
CacheAdd(c, key, idx) ==
    IF CacheFind(c, key).hit THEN c
    ELSE IF Len(c) >= index_maxsize THEN Append(Tail(c), [key |-> key, idx |-> idx])
    ELSE Append(c, [key |-> key, idx |-> idx])

\* the nodes the walk of a template yields, in order
WalkOf(name) == iter_nodelist_recursive("palette_v2", RootNodelist(name))

\* comps and parent of a call that has taken `pos` nodes from the walk
LocalIndex(name, pos) == IndexFrom(SubSeq(WalkOf(name), 1, pos))

NoLookupEvent == [k |-> "none", name |-> "", ok |-> FALSE, hit |-> FALSE,
                  idx |-> IndexFrom(<<>>)]

\* a render calling the indexer: the calls it has made, where its current call
\* is, and what its last call returned
Caller == [engine |-> "caller", calls |-> 0, pc |-> "idle", name |-> "", pos |-> 0,
           last |-> NoLookupEvent]

InitLookups ==
    /\ th = [t \in Pair |-> Caller]
    /\ cache = <<>>

Returns(s, ok, hit, idx) ==
    [s EXCEPT !.pc = "idle", !.pos = 0,
              !.last = [k |-> "index", name |-> s.name, ok |-> ok, hit |-> hit,
                        idx |-> idx]]

\* the wrapper is entered: a hit returns the cached value, a miss calls the function
LookupCall(t) ==
    /\ th[t].engine = "caller" /\ th[t].pc = "idle" /\ th[t].calls < MaxCalls
    /\ \E name \in LookupNames :
          IF CacheFind(cache, name).hit
          THEN /\ cache' = CacheUse(cache, name)
               /\ th' = [th EXCEPT ![t] =
                            Returns([th[t] EXCEPT !.calls = @ + 1, !.name = name],
                                    TRUE, TRUE, CacheFind(cache, name).idx)]
          ELSE /\ cache' = cache
               /\ th' = [th EXCEPT ![t] =
                            [th[t] EXCEPT !.calls = @ + 1, !.name = name,
                                          !.pc = "load"]]

\* lines 291-294: loader.get_template; a failure is raised and nothing is cached
LookupLoad(t) ==
    /\ th[t].engine = "caller" /\ th[t].pc = "load"
    /\ th' = [th EXCEPT ![t] =
                IF Loads(th[t].name) THEN [th[t] EXCEPT !.pc = "walk"]
                ELSE Returns(th[t], FALSE, FALSE, IndexFrom(<<>>))]
    /\ UNCHANGED cache

\* lines 299-304: the next node of the walk goes into the call's own comps / parent
LookupWalk(t) ==
    /\ th[t].engine = "caller" /\ th[t].pc = "walk"
    /\ th[t].pos < Len(WalkOf(th[t].name))
    /\ th' = [th EXCEPT ![t].pos = @ + 1]
    /\ UNCHANGED cache

\* line 305 and the wrapper: the function returns, its result is stored and returned
LookupStore(t) ==
    /\ th[t].engine = "caller" /\ th[t].pc = "walk"
    /\ th[t].pos = Len(WalkOf(th[t].name))
    /\ cache' = CacheAdd(cache, th[t].name, LocalIndex(th[t].name, th[t].pos))
    /\ th' = [th EXCEPT ![t] =
                Returns(th[t], TRUE, FALSE, LocalIndex(th[t].name, th[t].pos))]

\* clear_palette_cache, called between two lookups of a render
LookupClear(t) ==
    /\ th[t].engine = "caller" /\ th[t].pc = "idle" /\ th[t].calls < MaxCalls
    /\ cache' = <<>>
    /\ th' = [th EXCEPT ![t] = [th[t] EXCEPT !.calls = @ + 1,
                                             !.last = [NoLookupEvent EXCEPT !.k = "clear"]]]

NextLookups ==
    \E t \in Threads :
        LookupCall(t) \/ LookupLoad(t) \/ LookupWalk(t) \/ LookupStore(t)
            \/ LookupClear(t)

SpecLookups == InitLookups /\ [][NextLookups]_vars

\* C27: the shared index cache is safe for concurrent lookups.  In every
\* interleaving of the calls of two renders, a lookup that returns gives the index
\* a computation of that identity alone gives (and fails only for a template that
\* does not load), and every entry of the cache holds, under a key entered once,
\* the complete index of its own identity: no partly built index and no index of
\* another identity can be observed.
C27_ConcurrentLookups ==
    /\ \A j \in 1..Len(cache) :
          /\ Loads(cache[j].key)
          /\ cache[j].idx = IndexOf(cache[j].key)
          /\ \A k \in 1..Len(cache) : cache[k].key = cache[j].key => k = j
    /\ \A t \in Threads :
          (th[t].engine = "caller" /\ th[t].last.k = "index")
            => /\ th[t].last.ok <=> Loads(th[t].last.name)
               /\ th[t].last.ok => th[t].last.idx = IndexOf(th[t].last.name)

\* both renders have missed on the same template with their first call, both have
\* computed its index, and the cache holds the one entry
C27_Witness ==
    /\ DOMAIN th = Pair
    /\ \A t \in Pair :
          /\ th[t].engine = "caller" /\ th[t].calls = 1 /\ th[t].pc = "idle"
          /\ th[t].last = [k |-> "index", name |-> TS1, ok |-> TRUE, hit |-> FALSE,
                           idx |-> IndexOf(TS1)]
    /\ IndexOf(TS1).parent = TS2 /\ IndexOf(TS1).components["panel"] = "dS1"
    /\ cache = <<[key |-> TS1, idx |-> IndexOf(TS1)]>>


(***************************************************************************)
(* The default body in the effective stack (specification SpecV2)          *)
(***************************************************************************)
\* the block of the event was rendered for an invocation that overrides it
OverriddenBlock(b) ==
    b.k = "block_exit" /\ b.inv # NONE /\ DeclaredOverride(b) # NONE

\* C28: whichever lookup strategy located the component, the effective stack of a
\* block of the rendered component body holds that block's own default body (behind
\* the caller's override), so that an override of text and one request for the
\* previous content writes its text with the text of the default at the request.
C28_DefaultInStack ==
    \A t \in Threads :
        (IsV2(t) /\ OverriddenBlock(th[t].lastb))
          => /\ \E j \in 2..Len(th[t].lastb.stack) : th[t].lastb.stack[j] = th[t].lastb.n
             /\ (/\ TextOnly(Nodes[th[t].lastb.n].nodelist)
                 /\ SimpleOverride(Nodes[DeclaredOverride(th[t].lastb)].nodelist)
                 /\ Len(th[t].lastb.stack) = 2)
                  => th[t].lastb.out =
                        OverrideText(Nodes[DeclaredOverride(th[t].lastb)].nodelist,
                                     TextOf(Nodes[th[t].lastb.n].nodelist))


(***************************************************************************)
(* Components the requested template defines (specification Spec)          *)
(***************************************************************************)
\* the template of that name has, somewhere in its tree, a definition of comp
LexicallyDefines(tpl, comp) ==
    \E j \in 1..Len(TreeNodes(RootNodelist(tpl))) :
        /\ Nodes[TreeNodes(RootNodelist(tpl))[j]].kind = "component"
        /\ Nodes[TreeNodes(RootNodelist(tpl))[j]].comp = comp

\* C29: whenever the requested template loads and lexically defines a component of
\* the requested name, the lookup finds a body and the invocation does not return
\* the component-not-found diagnostic, whatever the body holds: a body without a
\* single node is found too.
C29_DefinedIsFound ==
    \A t \in Threads :
        (th[t].engine = "palette" /\ th[t].last.k = "ui_exit"
            /\ ~Unusable(Nodes[th[t].last.n].fileX, th[t].last.entry)
            /\ ~Unusable(Nodes[th[t].last.n].compX, th[t].last.entry)
            /\ Loads(th[t].last.tpl)
            /\ LexicallyDefines(th[t].last.tpl, th[t].last.comp))
          => /\ th[t].last.body # NONE
             /\ th[t].last.out # <<ERR_NOTFOUND>>


(***************************************************************************)
(* Same name, different templates (specification Spec)                     *)
(***************************************************************************)
\* the identities that name the template tpl: the name the caller used and the name
\* the loaded template object reports
IdentitiesOf(tpl) == {tpl, TemplateObjName(tpl)}

\* C30: components of the same name in different templates stay distinguished by
\* template identity.  When the requested template itself defines the requested
\* component, the body the lookup returns is one defined under an identity of that
\* template, never one registered under another identity that shares its filename,
\* whatever was registered earlier in the render.
C30_OwnBodyFound ==
    \A t \in Threads :
        (th[t].engine = "palette" /\ th[t].last.k = "ui_exit"
            /\ th[t].last.body # NONE
            /\ LexicallyDefines(th[t].last.tpl, th[t].last.comp))
          => Nodes[th[t].last.body].key \in IdentitiesOf(th[t].last.tpl)

(***************************************************************************)
(* Whose overrides an invocation collects (specification Spec)             *)
(***************************************************************************)
\* the override declarations that belong to an invocation with this inline body: the
\* ones written in it, possibly under a conditional or a loop, but not inside a
\* nested invocation and not inside the body of another override
RECURSIVE OwnDeclarations(_)
OwnDeclarations(nodelist) ==
    IF nodelist = <<>> THEN {}
    ELSE LET n == Nodes[Head(nodelist)] IN
         (CASE n.kind = "override" -> {Head(nodelist)}
            [] n.kind = "ui"       -> {}
            [] OTHER -> OwnDeclarations(n.nodelist \o n.nodelist_false))
         \cup OwnDeclarations(Tail(nodelist))

\* C31: the overrides collected for an invocation are exactly the declarations that
\* belong to it: a declaration made for a nested invocation inside the inline body,
\* or nested inside another override's body, is not in the outer invocation's map.
C31_OwnOverridesOnly ==
    \A t \in Threads :
        (th[t].engine = "palette" /\ th[t].last.k = "ui_exit"
            /\ th[t].last.outcome = "ok")
          => \A b \in BlockNames :
                 th[t].last.ov[b] # NONE
                    => th[t].last.ov[b] \in OwnDeclarations(Nodes[th[t].last.n].nodelist)

(***************************************************************************)
(* Overrides that name no block (specification Spec)                       *)
(***************************************************************************)
\* the names of the blocks written in the body of a component
BlocksOf(body) ==
    { Nodes[x].name : x \in { y \in NodeIds :
          /\ Nodes[y].kind = "block"
          /\ \E k \in 1..Len(TreeNodes(Nodes[body].nodelist)) :
                 TreeNodes(Nodes[body].nodelist)[k] = y } }

\* an override declaration of the inline body that names no block of the body
Unmatched(id, body) ==
    Nodes[id].kind = "override" /\ Nodes[id].name \notin BlocksOf(body)

RECURSIVE WithoutUnmatched(_, _)
WithoutUnmatched(nodelist, body) ==
    IF nodelist = <<>> THEN <<>>
    ELSE (IF Unmatched(Head(nodelist), body) THEN <<>> ELSE <<Head(nodelist)>>)
         \o WithoutUnmatched(Tail(nodelist), body)

\* b is the invocation a without its declarations that name no block of body
SameWithout(a, b, body) ==
    /\ Nodes[b].kind = "ui"
    /\ Nodes[b].fileX = Nodes[a].fileX /\ Nodes[b].compX = Nodes[a].compX
    /\ Nodes[b].props = Nodes[a].props
    /\ Nodes[b].nodelist = WithoutUnmatched(Nodes[a].nodelist, body)
    /\ Nodes[b].nodelist # Nodes[a].nodelist

\* C32: an override declaration whose name matches no block of the invoked component
\* has no effect: the invocation writes what the same invocation without the
\* declaration writes on the same page, and it neither fails nor writes a diagnostic.
C32_UnmatchedOverrideInert ==
    \A t \in Threads :
        (th[t].engine = "palette" /\ th[t].last.k = "ui_exit"
            /\ th[t].last.body # NONE
            /\ \E k \in 1..Len(Nodes[th[t].last.n].nodelist) :
                   Unmatched(Nodes[th[t].last.n].nodelist[k], th[t].last.body))
          => /\ th[t].last.outcome = "ok" /\ ~th[t].last.raised
             /\ \A j \in 1..Len(th[t].page) :
                   (th[t].page[j].st = "val"
                       /\ SameWithout(th[t].last.n, th[t].page[j].n, th[t].last.body))
                     => th[t].page[j].out = th[t].last.out

\* "card" was invoked plainly and then with an override of "x", a name none of its
\* blocks has; the declaration was collected and the two outputs are the same
C32_Witness ==
    \E t \in Threads :
        /\ th[t].engine = "palette" /\ th[t].last.k = "ui_exit"
        /\ th[t].last.n = "u_unm" /\ th[t].last.ov["x"] = "o_unm"
        /\ th[t].last.outcome = "ok"
        /\ Len(th[t].page) >= 1 /\ th[t].page[1].n = "u_plain"
        /\ th[t].page[1].st = "val"
        /\ th[t].page[1].out = th[t].last.out
        /\ Len(th[t].last.out) = 4

(***************************************************************************)
(* An overridden block and its default body (specification Spec)           *)
(***************************************************************************)
\* C33: when the invocation declares an override for a block and the override body
\* does not ask for the previous content, the default body is not rendered: the
\* block writes what the override body writes, and a failure inside the default
\* body does not reach the invocation.
C33_DefaultNotRendered ==
    \A t \in Threads :
        (th[t].engine = "palette" /\ th[t].lastb.k = "block_exit"
            /\ th[t].lastb.inv # NONE
            /\ DeclaredOverride(th[t].lastb) # NONE
            /\ TextOnly(Nodes[DeclaredOverride(th[t].lastb)].nodelist))
          => /\ th[t].lastb.st = "val"
             /\ th[t].lastb.out = TextOf(Nodes[DeclaredOverride(th[t].lastb)].nodelist)

(***************************************************************************)
(* Names the renderer binds itself (specification Spec)                    *)
(***************************************************************************)
\* C34: no variable injected by the renderer replaces a property of the caller:
\* whatever the name of a property (component_name and PALETTE_COMPONENTS
\* included), the component body reads the property's resolved value under it.
C34_PropertiesNotReplaced ==
    \A t \in Threads : \A j \in 1..Len(th[t].stack) :
        (IsPalette(t) /\ InBody(th[t], j))
          => \A v \in PropNames(th[t].stack[j].n) :
                Seen(th[t], j, v) = th[t].stack[j].lv[v]

(***************************************************************************)
(* The placeholder paths (specification Spec)                              *)
(***************************************************************************)
\* C35: an invocation that ends in a diagnostic before its scoped rendering (a
\* reference that does not resolve, a template that does not load, a component that
\* is not found) leaves the installed override state and the variable scopes as
\* they were: nothing was installed, pushed or bound.
C35_PlaceholderTouchesNothing ==
    \A t \in Threads :
        (th[t].engine = "palette" /\ th[t].last.k = "ui_exit"
            /\ th[t].last.outcome = "placeholder")
          => /\ th[t].last.out \in { <<ERR_REF>>, <<ERR_TEMPLATE>>, <<ERR_NOTFOUND>> }
             /\ th[t].last.exit.dicts = th[t].last.entry.dicts
             /\ th[t].last.exit.rc.palette_overrides
                  = th[t].last.entry.rc.palette_overrides
             /\ th[t].last.exit.rc.palette_current_component
                  = th[t].last.entry.rc.palette_current_component
             /\ ~th[t].last.pushed

\* inside the body of "host", invoked with an override of "header", the invocation
\* of a component that is not found has returned its diagnostic; it declares a
\* property and an override, and the override of "host" is still the installed one
\* on the two scopes the body renders with
C35_Witness ==
    \E t \in Threads :
        /\ th[t].engine = "palette" /\ th[t].last.k = "ui_exit"
        /\ th[t].last.n = "u_hmiss" /\ th[t].last.outcome = "placeholder"
        /\ th[t].last.out = <<ERR_NOTFOUND>>
        /\ Len(th[t].last.entry.dicts) = 2
        /\ InstalledOverrides(th[t].last.entry.rc)["header"] = "o_host"
        /\ InstalledOverrides(th[t].last.exit.rc)["header"] = "o_host"
        /\ InstalledOverrides(th[t].last.exit.rc)["body"] = NONE

(***************************************************************************)
(* The caller's `block` variable (specification SpecV2)                    *)
(***************************************************************************)
\* a frame that renders a block or evaluates a request for the next content
BlockFrame(f) == f.k \in {"block", "super"} /\ f.pc \in {"top", "fallback", "next"}

\* C36: rendering a block leaves the `block` variable as it found it: when a block
\* render returns or fails, and when the evaluation of a request for the next
\* content ends, the value visible under `block` is the one that was visible when
\* it started, and the name is unbound if it was unbound.
C36_BlockVariableKept ==
    [][\A t \in Threads :
         (IsV2(t) /\ Running(th[t]) /\ BlockFrame(Top(th[t]))
             /\ Len(th'[t].stack) < Len(th[t].stack))
           => Lookup(th'[t].ctxs[Top(th[t]).c], "block")
                = Lookup(Top(th[t]).entry, "block")]_vars

(***************************************************************************)
(* palette_tags.py: PaletteUI.render (specification SpecTags)              *)
(***************************************************************************)
MaxTagsTop == 2    \* top-level nodes of a page that uses the palette_tags.py tag

TagsPool == {"p_plain", "p_prop", "p_wrap", "p_fail", "p_nest", "p_miss"}

TagsAmbients ==
    { [EmptyLayer EXCEPT !["title"] = Str("T0"), !["tplvar"] = Str(TBTN),
                         !["compvar"] = Str("card"), !["flag"] = Str("yes")],
      [EmptyLayer EXCEPT !["title"] = Str("T0"), !["tplvar"] = Str(TMISS),
                         !["compvar"] = Faulty] }

IsTags(t) == th[t].engine = "palette_tags"

\* lines 145-152: val.resolve(context) is not guarded
TagsResolves(p, ctx) == p.type = "literal" \/ Resolves(ctx, p.v)

\* lines 146-152: a value holding template markers is rendered as a template on the
\* flattened variables; every value ends as a safe string
TagsValue(p, ctx) ==
    IF p.type = "literal" THEN Str(p.v)
    ELSE Rendered(ValueText(Resolve(ctx, p.v)))

RECURSIVE TagsProps(_, _, _)
TagsProps(props, ctx, lv) ==
    IF props = <<>> THEN lv
    ELSE TagsProps(Tail(props), ctx,
                   [lv EXCEPT ![Head(props).name] = TagsValue(Head(props), ctx)])

\* lines 137-154: resolve the path, load the template (unguarded), resolve the
\* properties, render the template on {**flattened, **properties}
PaletteUIRender(s) ==
    LET n   == Nodes[Top(s).n]
        ctx == Ctx(s)
        f   == [Top(s) EXCEPT !.entry = ctx]
        s0  == SetTop(s, f)
        tpl == IF n.fileX.lit THEN n.fileX.v
               ELSE IF Resolves(ctx, n.fileX.v) THEN NameOf(Resolve(ctx, n.fileX.v))
               ELSE NONE
    IN IF tpl \notin Idents \/ ~Loads(tpl)
          \/ \E k \in 1..Len(n.props) : ~TagsResolves(n.props[k], ctx)
       THEN Exit(s0, Throw(s0), "raised")
       ELSE LET lv  == TagsProps(n.props, ctx, EmptyLayer)
                tmp == NewContext(Inject(Flatten(ctx), lv))
                s1  == [s0 EXCEPT !.ctxs = Append(@, tmp)]
            IN PushF(SetTop(s1, [f EXCEPT !.pc = "component", !.tpl = tpl, !.lv = lv]),
                     NodelistFrame(RootNodelist(tpl), Len(s1.ctxs)))

\* lines 156-162: without an inline body the rendered template is the result;
\* otherwise a scope is pushed, palette_ui is bound in it and the inline body rendered
PaletteUIComponentFinished(s) ==
    LET f  == Top(s)
        s1 == [s EXCEPT !.ctxs = SubSeq(@, 1, Len(@) - 1)]
    IN IF s.ret.st = "exc" THEN Exit(s1, PopF(s1), "raised")
       ELSE IF Nodes[f.n].nodelist = <<>> THEN Exit(s1, Return(s1, s.ret.out), "ok")
       ELSE PushF(SetTop([s1 EXCEPT
                             !.ctxs[f.c] = SetVar(Push(@), "palette_ui",
                                                  UISuper(s.ret.out)),
                             !.ret = NoRet],
                         [f EXCEPT !.pc = "inline", !.pushed = TRUE]),
                  NodelistFrame(Nodes[f.n].nodelist, f.c))

\* lines 162-164: context.pop() follows the rendering of the inline body, outside
\* any try statement, so an exception leaves the method before it
PaletteUIInlineFinished(s) ==
    IF s.ret.st = "exc" THEN Exit(s, PopF(s), "raised")
    ELSE Exit(SetCtx(s, Pop(Ctx(s))), Return(SetCtx(s, Pop(Ctx(s))), s.ret.out), "ok")

\* VariableNode.render of {{ palette_ui.super }}
RenderUISuper(s) ==
    LET b == Lookup(Ctx(s), "palette_ui")
    IN Emit(s, IF b.t = "dict" THEN b.s ELSE <<>>)

InitTags ==
    /\ \E a \in TagsAmbients :
          th = [t \in Solo |-> NewThread("palette_tags", a, Page(TagsPool, MaxTagsTop))]
    /\ cache = <<>>

TagsPageNext(t) ==
    \E n \in th[t].pool :
        /\ ~Running(th[t]) /\ th[t].ret.st = "none" /\ ~th[t].crashed
        /\ IsTags(t)
        /\ Len(th[t].page) < th[t].max
        /\ Step(t, PushF([th[t] EXCEPT !.cur = n],
                         [Frame("ui", n, 1) EXCEPT !.pc = "resolve"]))

NLUISuper(t) ==
    /\ Waiting(th[t]) /\ HasNode(th[t])
    /\ CurNode(th[t]).kind = "var" /\ CurNode(th[t]).name = "palette_ui.super"
    /\ Step(t, RenderUISuper(th[t]))

TagsRender(t) ==
    /\ IsTags(t) /\ Waiting(th[t]) /\ At(th[t], "ui", "resolve")
    /\ Step(t, PaletteUIRender(th[t]))

TagsComponentEnd(t) ==
    /\ IsTags(t) /\ Returned(th[t]) /\ At(th[t], "ui", "component")
    /\ Step(t, PaletteUIComponentFinished(th[t]))

TagsInlineEnd(t) ==
    /\ IsTags(t) /\ Returned(th[t]) /\ At(th[t], "ui", "inline")
    /\ Step(t, PaletteUIInlineFinished(th[t]))

NextTags ==
    \E t \in Threads :
        \/ TagsPageNext(t) \/ PageCollect(t)
        \/ NLText(t) \/ NLVar(t) \/ NLUISuper(t) \/ NLRaise(t)
        \/ NLCall(t) \/ NLResume(t) \/ NLDone(t)
        \/ TagsRender(t) \/ TagsComponentEnd(t) \/ TagsInlineEnd(t)

SpecTags == InitTags /\ [][NextTags]_vars

\* C37: the scope that PaletteUI.render pushes to expose palette_ui.super is popped
\* on every exit, also when the rendering of the inline body raises: the scope depth
\* after the call is the depth before it.
C37_ScopePopped ==
    \A t \in Threads :
        (IsTags(t) /\ th[t].last.k = "ui_exit" /\ th[t].last.pushed)
          => Len(th[t].last.exit.dicts) = Len(th[t].last.entry.dicts)

====
